---- MODULE Spec2Model ----
(***************************************************************************)
(* Verification model of the eBalance Frappe application:                  *)
(*   - the keyword-based account classifier of ebalance/api/auto_mapping.py*)
(*   - the eBalance Report Request document of                             *)
(*     ebalance/ebalance/doctype/ebalance_report_request                   *)
(*                                                                         *)
(* Python strings are sequences of one-character strings, so that lower(), *)
(* strip(), split() and the substring test are computed, not assumed.      *)
(***************************************************************************)
EXTENDS Integers, Sequences, FiniteSets, TLC

VARIABLES
    account,            \* the frappe._dict handed to the classifier
    KEYWORD_CACHE,      \* module global _KEYWORD_CACHE
    MOF_CODES_BY_ROOT,  \* module global _MOF_CODES_BY_ROOT
    mappingDocs,        \* names of the MOF Account Mapping documents in the database
    lruExisting,        \* lru_cache slot of _get_existing_mof_codes
    result,             \* what the last suggest_mof_code call for the account returned
    firstResult,        \* what the first suggest_mof_code call for the account returned
    repeated,           \* the last call was not the first one
    pc,                 \* where each thread stands in find_best_mof_match
    idx,                \* each thread's position in the loop of _init_keyword_cache it runs
    threadMatch,        \* what find_best_mof_match returned to each thread
    status,             \* eBalance Report Request: status
    workflow_state,     \* eBalance Report Request: workflow_state
    report_user_org_hdr_id, \* eBalance Report Request: report_user_org_hdr_id
    external_id,        \* eBalance Report Request: external_id, as check_pending_reports reads it
    validation_errors,  \* eBalance Report Request: validation_errors
    sendReportCalls,    \* the workflow states under which submit_report called client.send_report
    idemCache,          \* frappe.cache(): idempotency key -> stored data and its expiry
    idemNow,            \* hours on the clock of the cache
    idemExecs,          \* executions of the function behind the idempotent decorator
    idemKeyParams,      \* the key_params argument of the decorator
    idemDone,           \* the successful executions: key parameters, result, expiry
    idemLast,           \* what the last call of the decorated function did
    breaker,            \* CircuitBreaker: _state, _failure_count, _last_failure_time, _half_open_calls
    breakerCache,       \* frappe.cache() value under circuit_breaker:<name>
    wallClock,          \* datetime.now() and time.time(), in seconds
    cbConsecutive,      \* calls of the wrapped function that failed in a row
    cbLast,             \* what the last call through the breaker did
    retryCall,          \* the wrapper of retry_with_backoff: its locals and what func did
    limiter,            \* RateLimiter: _tokens (times period) and _last_update
    rlAdmitted,         \* how many calls the rate limiter admitted in each second
    rcPc,               \* where each thread stands in resilient_call
    rcStart,            \* start_time of each thread's acquire
    rcPolled,           \* the waiting threads that have polled in the current second
    rcFuncRaised,       \* the function behind resilient_call has raised
    jobQueue,           \* the jobs frappe.enqueue holds for the worker
    jobStats,           \* per job: executions, retries enqueued, frappe.log_error and notify calls
    jobLast,            \* per job: what its last execution did
    jobAdmins,          \* how many users hold the role System Manager
    accountRows,        \* the names of the leaf accounts in the Account table
    mappingItems,       \* the rows of MOF Account Mapping Item: (parent, account)
    autoMapped,         \* the MOF Account Mapping documents with auto_mapped = 1
    docSaves,           \* how many saves of a MOF Account Mapping went through
    dbCommits,          \* how many times frappe.db.commit was called
    mapLast,            \* the last auto_map_accounts call and the database before it
    mapCalls,           \* how many times auto_map_accounts was called
    gePc,               \* where each worker stands in get_or_execute or the idempotent wrapper
    geLocal,            \* each worker's operation, params and result
    geReturned,         \* per operation and params: the executions of func that returned
    hoPc,               \* where each thread stands in the wrapper of the circuit breaker
    hoAdmitted,         \* the calls admitted since the breaker last left OPEN
    glCache,            \* frappe.cache(): the keys of api/cache.py, each with value and expiry
    glPosted,           \* per company: how many GL Entries have been posted
    glNow,              \* the clock of the cache, in periods of the gl_totals TTL
    glLast              \* what the last get_cached_gl_totals returned, and the ledger then

classifierVars == <<account, KEYWORD_CACHE, MOF_CODES_BY_ROOT, mappingDocs, lruExisting,
                    result, firstResult, repeated>>

threadVars == <<pc, idx, threadMatch>>

requestVars == <<status, workflow_state, report_user_org_hdr_id, external_id, validation_errors,
                 sendReportCalls>>

idemVars == <<idemCache, idemNow, idemExecs, idemKeyParams, idemDone, idemLast>>

breakerVars == <<breaker, breakerCache, wallClock, cbConsecutive, cbLast>>

retryVars == <<retryCall>>

resilientVars == <<limiter, rlAdmitted, rcPc, rcStart, rcPolled, rcFuncRaised>>

jobVars == <<jobQueue, jobStats, jobLast, jobAdmins>>

mapVars == <<accountRows, mappingItems, autoMapped, docSaves, dbCommits, mapLast, mapCalls>>

geVars == <<gePc, geLocal, geReturned>>

hoVars == <<hoPc, hoAdmitted>>

glVars == <<glCache, glPosted, glNow, glLast>>

otherVars == <<geVars, hoVars, glVars>>

utilVars == <<idemVars, breakerVars, retryVars, resilientVars, jobVars, mapVars, otherVars>>

vars == <<classifierVars, threadVars, requestVars, utilVars>>

----------------------------------------------------------------------------
(* Bounds *)

\* most name parts joined into one account name
MaxParts == 2

\* most executions of a function behind the idempotent decorator
MaxExecs == 2

\* ttl_hours of the stored results
TtlHours == 2

\* last hour on the clock of the idempotency cache
MaxIdemClock == 2

\* failure_threshold of the circuit breaker
FailureThreshold == 2

\* recovery_timeout of the circuit breaker, in seconds
RecoveryTimeout == 1

\* half_open_max_calls of the circuit breaker
HalfOpenMaxCalls == 1

\* last second on the wall clock
MaxClock == 3

\* largest max_retries of retry_with_backoff
MaxRetries == 3

\* calls of the rate limiter: the tokens of a full bucket
RlCalls == 2

\* period of the rate limiter, in seconds
RlPeriod == 2

\* timeout of the acquire in RateLimiter.__call__, in seconds: half a
\* period, as the 30 seconds are of the 60 of ebalance_rate_limiter
AcquireTimeout == 1

\* largest max_retries of enqueue_with_retry
MaxJobRetries == 2

\* most users that hold the role System Manager
MaxAdmins == 4

\* most calls of auto_map_accounts
MaxMapCalls == 2

\* most GL Entries posted for one company
MaxGlEntries == 1

\* last period on the clock of the GL totals cache
MaxGlClock == 1

\* CACHE_TTL["gl_totals"], in periods of that clock
GlTotalsTtl == 1

----------------------------------------------------------------------------
(* Defaults of retry_with_backoff *)

InitialDelay == 1

MaxDelay == 60

ExponentialBase == 2

----------------------------------------------------------------------------
(* Python values *)

\* Python None where a string is expected
None == <<"None">>

\* Python None where a root type is expected
NoRootType == "None"

\* Python truthiness of an optional string
Truthy(s) == s # None /\ s # <<>>

\* characters str.strip() and str.split() treat as whitespace
Whitespace == {" ", "\t"}

UpperLetters ==
    <<"A","B","C","D","E","F","G","H","I","J","K","L","M",
      "N","O","P","Q","R","S","T","U","V","W","X","Y","Z">>

LowerLetters ==
    <<"a","b","c","d","e","f","g","h","i","j","k","l","m",
      "n","o","p","q","r","s","t","u","v","w","x","y","z">>

UpperSet == {UpperLetters[i] : i \in 1..Len(UpperLetters)}

LowerMap == [u \in UpperSet |-> LowerLetters[CHOOSE i \in 1..Len(UpperLetters) : UpperLetters[i] = u]]

LowerChar(c) == IF c \in UpperSet THEN LowerMap[c] ELSE c

\* str.lower()
Lower(s) == [i \in 1..Len(s) |-> LowerChar(s[i])]

RECURSIVE LStrip(_)
LStrip(s) ==
    IF s = <<>> THEN s
    ELSE IF Head(s) \in Whitespace THEN LStrip(Tail(s)) ELSE s

RECURSIVE RStrip(_)
RStrip(s) ==
    IF s = <<>> THEN s
    ELSE IF s[Len(s)] \in Whitespace THEN RStrip(SubSeq(s, 1, Len(s) - 1)) ELSE s

\* str.strip()
Strip(s) == RStrip(LStrip(s))

\* len(s.split()): the number of maximal runs of non-whitespace characters
WordCount(s) ==
    Cardinality({i \in 1..Len(s) :
        s[i] \notin Whitespace /\ (i = 1 \/ s[i-1] \in Whitespace)})

\* the Python test `kw in text` on strings
Contains(text, kw) ==
    \E i \in 0..(Len(text) - Len(kw)) : SubSeq(text, i + 1, i + Len(kw)) = kw

Max(a, b) == IF a >= b THEN a ELSE b

----------------------------------------------------------------------------
(* The catalog: a slice of ACCOUNT_KEYWORDS, in source order, with the     *)
(* English phrases of each code.                                           *)

c1112 == <<"1","1","1","2">>
c1300 == <<"1","3","0","0">>
c1306 == <<"1","3","0","6">>
c1901 == <<"1","9","0","1">>
c1902 == <<"1","9","0","2">>
c2120 == <<"2","1","2","0">>
c3400 == <<"3","4","0","0">>
c4310 == <<"4","3","1","0">>
c6700 == <<"6","7","0","0">>
c7300 == <<"7","3","0","0">>

\* list(ACCOUNT_KEYWORDS.keys()): dict iteration order is insertion order
KeywordCodes ==
    <<c1112, c1300, c1306, c1901, c1902, c2120, c3400, c4310, c6700, c7300>>

ACCOUNT_KEYWORDS ==
    [c \in {KeywordCodes[i] : i \in 1..Len(KeywordCodes)} |->
        CASE c = c1112 -> << <<"b","a","n","k">>,
                             <<"c","h","e","c","k","i","n","g">>,
                             <<"c","u","r","r","e","n","t"," ","a","c","c","o","u","n","t">>,
                             <<"m","n","t">> >>
          [] c = c1300 -> << <<"i","n","v","e","n","t","o","r","y">>,
                             <<"s","t","o","c","k">> >>
          [] c = c1306 -> << <<"i","n","v","e","n","t","o","r","y"," ","w","r","i","t","e","-","d","o","w","n">>,
                             <<"o","b","s","o","l","e","t","e">> >>
          [] c = c1901 -> << <<"s","o","f","t","w","a","r","e">>,
                             <<"l","i","c","e","n","s","e">> >>
          [] c = c1902 -> << <<"l","i","c","e","n","s","e">>,
                             <<"r","i","g","h","t">>,
                             <<"p","a","t","e","n","t">> >>
          [] c = c2120 -> << <<"s","h","o","r","t","-","t","e","r","m"," ","b","a","n","k"," ","l","o","a","n">>,
                             <<"b","a","n","k"," ","o","v","e","r","d","r","a","f","t">> >>
          [] c = c3400 -> << <<"r","e","s","e","r","v","e">> >>
          [] c = c4310 -> << <<"i","n","t","e","r","e","s","t"," ","i","n","c","o","m","e">> >>
          [] c = c6700 -> << <<"i","n","v","e","n","t","o","r","y"," ","w","r","i","t","e","-","d","o","w","n">> >>
          [] c = c7300 -> << <<"b","a","n","k"," ","f","e","e">>,
                             <<"b","a","n","k"," ","c","h","a","r","g","e">> >> ]

\* ROOT_TYPE_RANGES.items(), in source order
RootTypes == <<"Asset", "Liability", "Equity", "Income", "Expense">>

ROOT_TYPE_RANGES ==
    [r \in {RootTypes[i] : i \in 1..Len(RootTypes)} |->
        CASE r = "Asset"     -> {"1"}
          [] r = "Liability" -> {"2"}
          [] r = "Equity"    -> {"3"}
          [] r = "Income"    -> {"4"}
          [] r = "Expense"   -> {"5", "6", "7", "8", "9"} ]

\* MOF_ACCOUNTS of the fixtures: every catalog code plus the group account 1000
c1000 == <<"1","0","0","0">>

MOF_ACCOUNTS == {KeywordCodes[i] : i \in 1..Len(KeywordCodes)} \cup {c1000}

\* an empty Python dict
EmptyDict == [k \in {} |-> 0]

----------------------------------------------------------------------------
(* _init_keyword_cache *)

\* one iteration of the first loop: _KEYWORD_CACHE[mof_code] = (keyword_set, max_words)
KeywordCacheEntry(mof_code) ==
    LET keywords == ACCOUNT_KEYWORDS[mof_code]
        RECURSIVE MaxWords(_, _)
        MaxWords(i, m) ==
            IF i > Len(keywords) THEN m
            ELSE MaxWords(i + 1, Max(m, WordCount(keywords[i])))
    IN [keyword_set |-> {Lower(keywords[i]) : i \in 1..Len(keywords)},
        max_words   |-> MaxWords(1, 0)]

KeywordCacheStep(cache, mof_code) ==
    [c \in DOMAIN cache \cup {mof_code} |->
        IF c = mof_code THEN KeywordCacheEntry(mof_code) ELSE cache[c]]

\* one iteration of the second loop: append the code to the list of the
\* first root type whose ranges hold its first character
CodesByRootStep(byRoot, mof_code) ==
    LET prefix == mof_code[1]
        hits == {i \in 1..Len(RootTypes) : prefix \in ROOT_TYPE_RANGES[RootTypes[i]]}
    IN IF hits = {} THEN byRoot
       ELSE LET root_type == RootTypes[CHOOSE i \in hits : \A j \in hits : i <= j]
                old == IF root_type \in DOMAIN byRoot THEN byRoot[root_type] ELSE <<>>
            IN [r \in DOMAIN byRoot \cup {root_type} |->
                    IF r = root_type THEN Append(old, mof_code) ELSE byRoot[r]]

RECURSIVE BuildKeywordCache(_, _)
BuildKeywordCache(cache, i) ==
    IF i > Len(KeywordCodes) THEN cache
    ELSE BuildKeywordCache(KeywordCacheStep(cache, KeywordCodes[i]), i + 1)

RECURSIVE BuildCodesByRoot(_, _)
BuildCodesByRoot(byRoot, i) ==
    IF i > Len(KeywordCodes) THEN byRoot
    ELSE BuildCodesByRoot(CodesByRootStep(byRoot, KeywordCodes[i]), i + 1)

\* the initializer without its "already initialized" test
init_keyword_cache_NoGuard(cache, byRoot) ==
    [cache |-> BuildKeywordCache(cache, 1),
     byRoot |-> BuildCodesByRoot(byRoot, 1)]

\* the whole initializer, run without interruption: the pair of globals after it
init_keyword_cache(cache, byRoot) ==
    IF DOMAIN cache # {}
    THEN [cache |-> cache, byRoot |-> byRoot]
    ELSE [cache |-> BuildKeywordCache(cache, 1),
          byRoot |-> BuildCodesByRoot(byRoot, 1)]

----------------------------------------------------------------------------
(* The classifier *)

\* _normalize_text: text.lower().strip()
normalize_text(text) == Strip(Lower(text))

\* every keyword found counts one, however many words it has
RECURSIVE calculate_keyword_score_PerKeyword(_, _, _)
calculate_keyword_score_PerKeyword(text, keyword_set, max_words) ==
    IF keyword_set = {} THEN 0
    ELSE LET keyword == CHOOSE k \in keyword_set : TRUE
             rest == calculate_keyword_score_PerKeyword(text, keyword_set \ {keyword}, max_words)
         IN IF Contains(text, keyword) THEN 1 + rest ELSE rest

\* _calculate_keyword_score_fast: the word counts of the keywords found in
\* the text, added up (max_words is passed and not used, as in the source)
RECURSIVE calculate_keyword_score_fast(_, _, _)
calculate_keyword_score_fast(text, keyword_set, max_words) ==
    IF keyword_set = {} THEN 0
    ELSE LET keyword == CHOOSE k \in keyword_set : TRUE
             rest == calculate_keyword_score_fast(text, keyword_set \ {keyword}, max_words)
         IN IF Contains(text, keyword) THEN WordCount(keyword) + rest ELSE rest

\* the candidate list taken from the whole catalog, whatever the root type
CompatibleCodes_IgnoreRoot(root_type, byRoot) == KeywordCodes

\* _MOF_CODES_BY_ROOT.get(account.root_type, list(ACCOUNT_KEYWORDS.keys()))
CompatibleCodes(root_type, byRoot) ==
    IF root_type \in DOMAIN byRoot THEN byRoot[root_type] ELSE KeywordCodes

\* a later candidate with an equal score replaces the best one
BetterScore_OrEqual(score, best_score) == score >= best_score

\* the update of (best_match, best_score) by one scored candidate
BetterScore(score, best_score) == score > best_score

\* the scoring loop of find_best_mof_match_fast over compatible_codes[i..]
RECURSIVE BestMatchLoop(_, _, _, _, _, _)
BestMatchLoop(codes, i, text, existing_mof_codes, cache, best) ==
    IF i > Len(codes) THEN best
    ELSE LET mof_code == codes[i]
         IN IF mof_code \notin existing_mof_codes \/ mof_code \notin DOMAIN cache
            THEN BestMatchLoop(codes, i + 1, text, existing_mof_codes, cache, best)
            ELSE LET score == calculate_keyword_score_fast(
                                 text, cache[mof_code].keyword_set, cache[mof_code].max_words)
                 IN BestMatchLoop(codes, i + 1, text, existing_mof_codes, cache,
                        IF BetterScore(score, best.best_score)
                        THEN [best_match |-> mof_code, best_score |-> score]
                        ELSE best)

\* a threshold of one matched word
MinScore_One == 2 - 1

\* the confidence threshold of the keyword strategy
MinScore == 2

\* strategy 3 of find_best_mof_match_fast: keyword matching
KeywordMatch(acc, existing_mof_codes, cache, byRoot) ==
    LET account_text ==
            normalize_text(IF Truthy(acc.account_name) THEN acc.account_name ELSE <<>>)
    IN IF account_text = <<>> THEN None
       ELSE LET best == BestMatchLoop(CompatibleCodes(acc.root_type, byRoot), 1,
                            account_text, existing_mof_codes, cache,
                            [best_match |-> None, best_score |-> 0])
            IN IF best.best_score >= MinScore THEN best.best_match ELSE None

\* strategy 1: the account number is an existing MOF code
ExactNumberMatch(acc, existing_mof_codes) ==
    Truthy(acc.account_number) /\ acc.account_number \in existing_mof_codes

\* strategy 2: the first four characters of the account number are one
PrefixNumberMatch(acc, existing_mof_codes) ==
    /\ Truthy(acc.account_number)
    /\ Len(acc.account_number) >= 4
    /\ SubSeq(acc.account_number, 1, 4) \in existing_mof_codes

\* the keyword strategy tried before the account number
find_best_mof_match_KeywordFirst(acc, existing_mof_codes, cache, byRoot) ==
    LET kw == KeywordMatch(acc, existing_mof_codes, cache, byRoot)
    IN IF kw # None THEN kw
       ELSE IF ExactNumberMatch(acc, existing_mof_codes) THEN acc.account_number
       ELSE IF PrefixNumberMatch(acc, existing_mof_codes) THEN SubSeq(acc.account_number, 1, 4)
       ELSE None

\* the 4-character prefix returned without looking it up in the existing codes
find_best_mof_match_NoPrefixCheck(acc, existing_mof_codes, cache, byRoot) ==
    IF ExactNumberMatch(acc, existing_mof_codes) THEN acc.account_number
    ELSE IF Truthy(acc.account_number) /\ Len(acc.account_number) >= 4
         THEN SubSeq(acc.account_number, 1, 4)
    ELSE KeywordMatch(acc, existing_mof_codes, cache, byRoot)

find_best_mof_match_fast(acc, existing_mof_codes, cache, byRoot) ==
    IF ExactNumberMatch(acc, existing_mof_codes) THEN acc.account_number
    ELSE IF PrefixNumberMatch(acc, existing_mof_codes) THEN SubSeq(acc.account_number, 1, 4)
    ELSE KeywordMatch(acc, existing_mof_codes, cache, byRoot)

\* the candidates of get_suggestions_fast with a score above zero, in
\* compatible_codes order
RECURSIVE ScoredCandidates(_, _, _, _, _)
ScoredCandidates(codes, i, text, existing_mof_codes, cache) ==
    IF i > Len(codes) THEN <<>>
    ELSE LET mof_code == codes[i]
             tail == ScoredCandidates(codes, i + 1, text, existing_mof_codes, cache)
         IN IF mof_code \notin existing_mof_codes \/ mof_code \notin DOMAIN cache
            THEN tail
            ELSE LET score == calculate_keyword_score_fast(
                                 text, cache[mof_code].keyword_set, cache[mof_code].max_words)
                 IN IF score > 0
                    THEN <<[mof_code |-> mof_code, score |-> score]>> \o tail
                    ELSE tail

\* the suggestions left in candidate order
RECURSIVE SortByScoreDesc_Unsorted(_)
SortByScoreDesc_Unsorted(suggestions) == suggestions

\* list.sort(key=score, reverse=True): a stable sort, so equal scores keep
\* their order; s is inserted behind every element whose score is not lower
RECURSIVE SortByScoreDesc(_)
SortByScoreDesc(suggestions) ==
    IF suggestions = <<>> THEN <<>>
    ELSE LET n == Len(suggestions)
             s == suggestions[n]
             sorted == SortByScoreDesc(SubSeq(suggestions, 1, n - 1))
             k == Cardinality({j \in 1..Len(sorted) : sorted[j].score >= s.score})
         IN SubSeq(sorted, 1, k) \o <<s>> \o SubSeq(sorted, k + 1, Len(sorted))

\* how many suggestions are returned
TopN == 5

\* suggestions[:5]
Top(suggestions) ==
    SubSeq(suggestions, 1, IF Len(suggestions) < TopN THEN Len(suggestions) ELSE TopN)

\* the enrichment with the names of the MOF Account Mapping documents read
\* from the database: a suggestion gets its mof_name when its document exists
Enrich(suggestions, docs) ==
    [j \in 1..Len(suggestions) |->
        [mof_code |-> suggestions[j].mof_code,
         score    |-> suggestions[j].score,
         mof_name |-> suggestions[j].mof_code \in docs]]

get_suggestions_fast(acc, existing_mof_codes, cache, byRoot, docs) ==
    LET account_text ==
            normalize_text(IF Truthy(acc.account_name) THEN acc.account_name ELSE <<>>)
    IN IF account_text = <<>> THEN <<>>
       ELSE Enrich(Top(SortByScoreDesc(
                ScoredCandidates(CompatibleCodes(acc.root_type, byRoot), 1,
                                 account_text, existing_mof_codes, cache))), docs)

----------------------------------------------------------------------------
(* The accounts the classifier is run on *)

NameParts ==
    { <<"R","e","s","e","r","v","e"," ","B","a","n","k"," ","F","e","e">>,
      <<"i","n","v","e","n","t","o","r","y"," ","w","r","i","t","e","-","d","o","w","n">>,
      <<"l","i","c","e","n","s","e">>,
      <<"i","n","t","e","r","e","s","t"," ","i","n","c","o","m","e">> }

\* the names made of exactly n parts, separated by a blank
RECURSIVE NamesOf(_)
NamesOf(n) ==
    IF n = 1 THEN NameParts
    ELSE {a \o <<" ">> \o p : a \in NamesOf(n - 1), p \in NameParts}

AccountNames ==
    UNION {NamesOf(n) : n \in 1..MaxParts}
    \cup { None, <<>>, <<" ", "\t">>,
           <<" ","O","b","s","o","l","e","t","e"," ","S","t","o","c","k"," ">> }

AccountNumbers ==
    { None, c1112, <<"1","1","1","2","5">>, <<"9","9","9">> }

AccountRootTypes ==
    {RootTypes[i] : i \in 1..Len(RootTypes)} \cup {NoRootType}

Accounts ==
    [account_name : AccountNames, account_number : AccountNumbers,
     root_type : AccountRootTypes]

----------------------------------------------------------------------------
(* State of the classifier *)

\* the lru_cache slot of _get_existing_mof_codes before its first call
Unset == {None}

\* no suggest_mof_code call has returned yet
NoResult == [called |-> FALSE]

\* the MOF accounts whose insert import_mof_accounts can have skipped with an
\* error (each insert sits in a try/except), so that their document is missing
FailedImports == {c1112, c1306}

\* _get_existing_mof_codes(): the cached frozenset, or the database on a miss
get_existing_mof_codes == IF lruExisting = Unset THEN mappingDocs ELSE lruExisting

\* the threads of one worker process that serve requests
Threads == {"t1", "t2"}

\* no thread is inside find_best_mof_match
ThreadsIdle ==
    /\ pc = [t \in Threads |-> "idle"]
    /\ idx = [t \in Threads |-> 0]
    /\ threadMatch = [t \in Threads |-> NoResult]

\* a Python None in a field of the request
NoValue == "None"

\* create_request_from_period: status Draft, the header id of the report
\* period (which may have none); workflow_state is the first workflow state
\* when a workflow is active for the doctype and is left empty otherwise
RequestCreated ==
    /\ status = "Draft"
    /\ workflow_state \in {NoValue, "Draft"}
    /\ report_user_org_hdr_id \in {NoValue, "hdr"}
    /\ external_id \in {NoValue, "ext"}
    /\ validation_errors = NoValue
    /\ sendReportCalls = {}

\* a request nothing has been done with: created without workflow and header id
RequestUntouched ==
    /\ status = "Draft"
    /\ workflow_state = NoValue
    /\ report_user_org_hdr_id = NoValue
    /\ external_id = NoValue
    /\ validation_errors = NoValue
    /\ sendReportCalls = {}

----------------------------------------------------------------------------
(* utils/idempotency.py: values, key generation and the cache              *)

\* Python values handed to the decorated function, each with the text str()
\* and json.dumps write for it
PyStr(text) == [type |-> "str", value |-> text]
PyInt(text) == [type |-> "int", value |-> text]
PyDate(text) == [type |-> "date", value |-> text]

\* json.dumps of one value with default=str: a number for an int, a string
\* for a str, and for every other object (json.dumps calls `default` for it)
\* the string str(obj)
JsonValue(v) ==
    CASE v.type = "int" -> [json |-> "number", text |-> v.value]
      [] v.type = "str" -> [json |-> "string", text |-> v.value]
      [] OTHER          -> [json |-> "string", text |-> v.value]

\* the parameter names of the decorated function, in sort_keys order
SortedParamNames == <<"period", "report_id">>

\* json.dumps(params, sort_keys=True, default=str)
JsonDumps(params) ==
    LET present == SelectSeq(SortedParamNames, LAMBDA k : k \in DOMAIN params)
    IN [i \in 1..Len(present) |-> <<present[i], JsonValue(params[present[i]])>>]

\* hashlib.sha256(key_source.encode()).hexdigest()[:16]: different sources
\* of the modelled domain have different digests
Sha256Prefix(key_source) == <<"sha256", key_source>>

\* IdempotencyManager.generate_key
generate_key(operation, params) ==
    [prefix    |-> "idempotency:ebalance",
     operation |-> operation,
     key_hash  |-> Sha256Prefix(<<operation, JsonDumps(params)>>)]

CacheGetValue_NoExpiry(cache, now, key) ==
    IF key \in DOMAIN cache THEN <<cache[key].data>> ELSE << >>

\* frappe.cache().get_value(key): <<data>> until the stored data expires,
\* << >> for None
CacheGetValue(cache, now, key) ==
    IF key \in DOMAIN cache /\ now < cache[key].expires THEN <<cache[key].data>> ELSE << >>

\* IdempotencyManager.check: `if cached:` holds for every stored dict
IdempotencyCheck(cache, now, key) ==
    LET cached == CacheGetValue(cache, now, key)
    IN IF cached # << >>
       THEN [is_duplicate |-> TRUE, cached_result |-> <<cached[1].result>>]
       ELSE [is_duplicate |-> FALSE, cached_result |-> << >>]

\* IdempotencyManager.store
IdempotencyStore(cache, now, key, stored, ttl_hours) ==
    [k \in DOMAIN cache \cup {key} |->
        IF k = key
        THEN [data |-> [result |-> stored, timestamp |-> now, app |-> "ebalance"],
              expires |-> now + ttl_hours]
        ELSE cache[k]]

\* key_params=None of the decorator
NoKeyParams == {NoValue}

\* no decorated function has been called
IdemIdle ==
    /\ idemCache = EmptyDict
    /\ idemNow = 0
    /\ idemExecs = 0
    /\ idemKeyParams = NoKeyParams
    /\ idemDone = {}
    /\ idemLast = [called |-> FALSE]

----------------------------------------------------------------------------
(* utils/resilience.py: CircuitBreaker                                     *)

\* _last_failure_time = None
NoTime == 0 - 1

\* CircuitBreaker(...): the fields after the dataclass defaults
NewBreaker ==
    [state |-> "closed", failure_count |-> 0, last_failure_time |-> NoTime,
     half_open_calls |-> 0]

\* CircuitBreaker._save_state: what is written to the cache
save_state(b) ==
    <<[state |-> b.state, failure_count |-> b.failure_count,
       last_failure_time |-> b.last_failure_time]>>

\* _load_state without the restoring of _last_failure_time
load_state_NoTime(cache) ==
    IF cache = << >> THEN NewBreaker
    ELSE [NewBreaker EXCEPT !.state = cache[1].state,
                            !.failure_count = cache[1].failure_count]

\* CircuitBreaker.__post_init__ and _load_state: the defaults, overlaid with
\* the cached state when there is one (<< >> is an empty cache)
load_state(cache) ==
    IF cache = << >> THEN NewBreaker
    ELSE [NewBreaker EXCEPT !.state = cache[1].state,
                            !.failure_count = cache[1].failure_count,
                            !.last_failure_time = cache[1].last_failure_time]

\* the test of _should_allow_request on an OPEN breaker; this variant lets
\* every call through
RecoveryElapsed_Always(b, t) == b.state = "open"

\* the test of _should_allow_request on an OPEN breaker
RecoveryElapsed(b, t) ==
    /\ b.last_failure_time # NoTime
    /\ t - b.last_failure_time > RecoveryTimeout

\* CircuitBreaker._should_allow_request at time t
should_allow_request(b, cache, t) ==
    CASE b.state = "closed" -> [allow |-> TRUE, b |-> b, cache |-> cache]
      [] b.state = "open" ->
            IF RecoveryElapsed(b, t)
            THEN LET trial == [b EXCEPT !.state = "half_open", !.half_open_calls = 0]
                 IN [allow |-> TRUE, b |-> trial, cache |-> save_state(trial)]
            ELSE [allow |-> FALSE, b |-> b, cache |-> cache]
      [] b.state = "half_open" ->
            IF b.half_open_calls < HalfOpenMaxCalls
            THEN [allow |-> TRUE,
                  b |-> [b EXCEPT !.half_open_calls = b.half_open_calls + 1],
                  cache |-> cache]
            ELSE [allow |-> FALSE, b |-> b, cache |-> cache]

\* CircuitBreaker._on_success; this variant closes the circuit and keeps the count
on_success_KeepCount(b, cache) ==
    IF b.state = "half_open"
    THEN LET closed == [b EXCEPT !.state = "closed"]
         IN [b |-> closed, cache |-> save_state(closed)]
    ELSE [b |-> b, cache |-> cache]

\* CircuitBreaker._on_success
on_success(b, cache) ==
    CASE b.state = "half_open" ->
            LET closed == [b EXCEPT !.state = "closed", !.failure_count = 0]
            IN [b |-> closed, cache |-> save_state(closed)]
      [] b.state = "closed" ->
            [b |-> [b EXCEPT !.failure_count = 0], cache |-> cache]
      [] OTHER -> [b |-> b, cache |-> cache]

\* `if self._failure_count >= self.failure_threshold`; this variant needs
\* one failure more
ThresholdReached_Above(count) == count > FailureThreshold

\* `if self._failure_count >= self.failure_threshold`
ThresholdReached(count) == count >= FailureThreshold

\* CircuitBreaker._on_failure at time t
on_failure(b, cache, t) ==
    LET counted == [b EXCEPT !.failure_count = b.failure_count + 1,
                             !.last_failure_time = t]
        opened == [counted EXCEPT !.state = "open"]
    IN CASE b.state = "half_open" -> [b |-> opened, cache |-> save_state(opened)]
         [] b.state = "closed" /\ ThresholdReached(counted.failure_count) ->
               [b |-> opened, cache |-> save_state(opened)]
         [] OTHER -> [b |-> counted, cache |-> cache]

\* CircuitBreaker.__call__, wrapper: the breaker after a call at time t whose
\* wrapped function, when it is invoked, ends with the given outcome
BreakerWrapper(b, cache, t, outcome) ==
    LET a == should_allow_request(b, cache, t)
        done == IF ~a.allow THEN [b |-> a.b, cache |-> a.cache]
                ELSE IF outcome = "return" THEN on_success(a.b, a.cache)
                ELSE on_failure(a.b, a.cache, t)
    IN [allow |-> a.allow, b |-> done.b, cache |-> done.cache]

\* no call has gone through the breaker of a fresh process
BreakerIdle ==
    /\ breaker = NewBreaker
    /\ breakerCache = << >>
    /\ wallClock = 0
    /\ cbConsecutive = 0
    /\ cbLast = [called |-> FALSE]

----------------------------------------------------------------------------
(* utils/resilience.py: retry_with_backoff                                 *)

RetryableExceptions_All == {"ConnectionError", "TimeoutError", "ValueError"}

\* exceptions=(ConnectionError, TimeoutError), as resilient_call passes them
RetryableExceptions == {"ConnectionError", "TimeoutError"}

\* how one invocation of the wrapped function can end
FuncOutcomes == {"return", "ConnectionError", "TimeoutError", "ValueError"}

\* `if attempt == max_retries: break`; this variant allows one attempt more
LastAttempt_OneMore(attempt, max_retries) == attempt = max_retries + 1

\* `if attempt == max_retries: break`
LastAttempt(attempt, max_retries) == attempt = max_retries

\* delay = min(delay * exponential_base, max_delay)
NextDelay(delay) ==
    IF delay * ExponentialBase < MaxDelay THEN delay * ExponentialBase ELSE MaxDelay

\* the wrapper of retry_with_backoff before its first call
RetryIdle ==
    retryCall = [status |-> "idle", max_retries |-> 0, attempt |-> 0, delay |-> 0,
                 outcomes |-> << >>, last_exception |-> NoValue, slept |-> << >>]

----------------------------------------------------------------------------
(* utils/resilience.py: RateLimiter and resilient_call                     *)

\* RateLimiter.__post_init__ at time 0.  _tokens is a float: the model keeps
\* _tokens * period, which is a whole number at every whole second
NewLimiter == [tokens |-> RlCalls * RlPeriod, last_update |-> 0]

\* RateLimiter._refill at time t
refill(l, t) ==
    LET filled == l.tokens + (t - l.last_update) * RlCalls
    IN [tokens |-> IF filled < RlCalls * RlPeriod THEN filled ELSE RlCalls * RlPeriod,
        last_update |-> t]

\* one pass of the loop of RateLimiter.acquire, under the lock:
\* _refill, then `if self._tokens >= 1: self._tokens -= 1; return True`
acquire_once(l, t) ==
    LET r == refill(l, t)
    IN IF r.tokens >= RlPeriod
       THEN [ok |-> TRUE, l |-> [r EXCEPT !.tokens = r.tokens - RlPeriod]]
       ELSE [ok |-> FALSE, l |-> r]

\* the threads that call resilient_call
Callers == {"c1", "c2"}

\* no call has reached the rate limiter or resilient_call
ResilientIdle ==
    /\ limiter = NewLimiter
    /\ rlAdmitted = [t \in 0..MaxClock |-> 0]
    /\ rcPc = [c \in Callers |-> "idle"]
    /\ rcStart = [c \in Callers |-> 0]
    /\ rcPolled = {}
    /\ rcFuncRaised = FALSE

----------------------------------------------------------------------------
(* ebalance/utils/background.py: jobs enqueued with retry *)

\* the jobs of enqueue_report_submission and enqueue_period_sync
JobNames == {"submit", "sync"}

\* what the wrapped method of a job does when it is called
JobOutcomes == {"ok", "fail"}

\* the System Managers _notify_job_failure publishes to: the first three
NotifiedAdmins(admins) == IF admins < 3 THEN admins ELSE 3

\* _notify_job_failure: the messages published; none when reading the admins raises
notify_job_failure(admins, readable) == IF readable THEN NotifiedAdmins(admins) ELSE 0

RetriesRemaining_Inclusive(retry_count, max_retries) == retry_count <= max_retries

\* the test of _execute_with_retry before it enqueues the retry
RetriesRemaining(retry_count, max_retries) == retry_count < max_retries

\* the kwargs enqueue_with_retry hands to frappe.enqueue
RetryMetadata(name, max_retries) ==
    [name |-> name, retry_count |-> 0, max_retries |-> max_retries]

\* the kwargs _execute_with_retry hands to frappe.enqueue for the retry
RetryJob(job) == [job EXCEPT !.retry_count = job.retry_count + 1]

NewJobStats ==
    [enqueued |-> FALSE, max_retries |-> 0, execs |-> 0, reenqueues |-> 0,
     error_logs |-> 0, notify_calls |-> 0, published |-> 0]

NoExecution == [retry_count |-> 0 - 1, outcome |-> NoValue, reenqueued |-> FALSE]

\* no job has been enqueued
JobsIdle ==
    /\ jobQueue = << >>
    /\ jobStats = [j \in JobNames |-> NewJobStats]
    /\ jobLast = [j \in JobNames |-> NoExecution]
    /\ jobAdmins = 0

----------------------------------------------------------------------------
(* ebalance/api/auto_mapping.py: batch mapping of the chart of accounts *)

PyBool(text) == [type |-> "bool", value |-> text]

\* the leaf accounts of the Account table, in the order of
\* order_by="account_number, name": the account without a number first
Ledger ==
    << [name |-> "a3", account_number |-> None,
        account_name |-> <<"i","n","v","e","n","t","o","r","y"," ","w","r","i","t","e","-","d","o","w","n">>,
        root_type |-> "Asset", company |-> "Y"],
       [name |-> "a1", account_number |-> c1112,
        account_name |-> <<"l","i","c","e","n","s","e">>,
        root_type |-> "Asset", company |-> "X"],
       [name |-> "a2", account_number |-> <<"1","1","1","2","5">>,
        account_name |-> <<"R","e","s","e","r","v","e"," ","B","a","n","k"," ","F","e","e">>,
        root_type |-> "Expense", company |-> "X"],
       [name |-> "a4", account_number |-> <<"9","9","9">>,
        account_name |-> <<" ","O","b","s","o","l","e","t","e"," ","S","t","o","c","k"," ">>,
        root_type |-> NoRootType, company |-> "Y"] >>

LedgerNames == {Ledger[i].name : i \in 1..Len(Ledger)}

\* the company argument: None, or one of the companies
Companies == {NoValue, "X", "Y"}

\* the values a caller hands to run_auto_mapping as dry_run
DryRunArgs ==
    {PyBool("True"), PyBool("False"), PyInt("1"), PyStr("1"), PyStr("0"), PyStr("true"),
     PyStr("True")}

\* dry_run in [True, "1", "true", "True"]
DryRunFlag(arg) ==
    arg \in {PyBool("True"), PyInt("1"), PyStr("1"), PyStr("true"), PyStr("True")}

\* frappe.get_all("Account", filters): the rows of the company, or all of them
SelectAccounts(rows, company) ==
    LET Keep(a) == a.name \in rows /\ (company = NoValue \/ a.company = company)
    IN SelectSeq(Ledger, Keep)

ShouldInsert_IgnoreDryRun(dry_run, pair, existing_mappings) == pair \notin existing_mappings

\* the test before batch_inserts.append
ShouldInsert(dry_run, pair, existing_mappings) ==
    ~dry_run /\ pair \notin existing_mappings

\* the loop of auto_map_accounts over accounts[i..]: the results and batch_inserts
RECURSIVE MapLoop(_, _, _, _, _, _, _, _)
MapLoop(accounts, i, dry_run, existing_mof_codes, existing_mappings, cache, byRoot, acc) ==
    IF i > Len(accounts) THEN acc
    ELSE LET a == accounts[i]
             mof_code == find_best_mof_match_fast(a, existing_mof_codes, cache, byRoot)
             next ==
                IF Truthy(mof_code)
                THEN [acc EXCEPT
                        !.matched = Append(@, [account |-> a.name, mof_code |-> mof_code]),
                        !.batch_inserts =
                            IF ShouldInsert(dry_run, <<mof_code, a.name>>, existing_mappings)
                            THEN Append(@, <<mof_code, a.name>>) ELSE @]
                ELSE [acc EXCEPT !.unmatched = Append(@, a.name)]
         IN MapLoop(accounts, i + 1, dry_run, existing_mof_codes, existing_mappings,
                    cache, byRoot, next)

\* _batch_add_mappings: the rows of the documents whose save went through
BatchRows(batch_inserts, failed) ==
    {batch_inserts[i] : i \in {j \in 1..Len(batch_inserts) : batch_inserts[j][1] \notin failed}}

\* the MOF codes _batch_add_mappings groups the rows by
BatchCodes(batch_inserts) == {batch_inserts[i][1] : i \in 1..Len(batch_inserts)}

NoMapCall == [called |-> FALSE]

\* auto_map_accounts has not run
MappingIdle ==
    /\ accountRows = LedgerNames
    /\ mappingItems = {}
    /\ autoMapped = {}
    /\ docSaves = 0
    /\ dbCommits = 0
    /\ mapLast = NoMapCall
    /\ mapCalls = 0

----------------------------------------------------------------------------
(* utils/idempotency.py under concurrent workers *)

\* the arguments the decorated function submit(report_id, period) is called with
IdemArgs ==
    [report_id : {PyInt("7"), PyStr("7")},
     period    : {PyDate("2024-01-01"), PyStr("2024-01-01")}]

\* the worker processes that share frappe.cache()
Workers == {"w1", "w2"}

\* the operations: get_or_execute("check_status", ...) and the function
\* decorated with @idempotent("submit_report")
IdemOperations == {"check_status", "submit_report"}

NoLocal == [operation |-> NoValue]

\* no worker is inside get_or_execute or the wrapper
GetOrExecuteIdle ==
    /\ gePc = [w \in Workers |-> "idle"]
    /\ geLocal = [w \in Workers |-> NoLocal]
    /\ geReturned = [c \in IdemOperations \X IdemArgs |-> 0]

\* the threads of one process that call through the module's breaker
BreakerThreads == {"b1", "b2", "b3"}

\* no thread is inside the breaker's wrapper
HalfOpenIdle ==
    /\ hoPc = [c \in BreakerThreads |-> "idle"]
    /\ hoAdmitted = 0

----------------------------------------------------------------------------
(* ebalance/api/cache.py: the cache of GL totals *)

\* CACHE_KEYS["balance"] and CACHE_KEYS["gl_totals"]
BalancePrefix == "ebalance:balance:"
GlTotalsPrefix == "ebalance:gl_totals:"

\* the companies, and the dates a range is made of ("" is an empty date)
GlCompanies == {"A", "B"}
GlRanges == {<<"2024-01-01", "2024-12-31">>, <<"", "">>}

\* ":".join(str(a) for a in args if a), as the sequence of its pieces
RECURSIVE JoinTruthy(_)
JoinTruthy(args) ==
    IF args = << >> THEN << >>
    ELSE LET rest == JoinTruthy(Tail(args))
         IN IF Head(args) = "" THEN rest
            ELSE IF rest = << >> THEN <<Head(args)>>
            ELSE <<Head(args), ":">> \o rest

\* cache_key(prefix, *args): the prefix followed by the joined arguments
cache_key(prefix, args) == IF args # << >> THEN <<prefix>> \o JoinTruthy(args) ELSE <<prefix>>

\* the key of get_cached_gl_totals and set_cached_gl_totals
GlTotalsKey(company, range) == cache_key(GlTotalsPrefix, <<company, range[1], range[2]>>)

\* cache_set of a dict: json.dumps(value, default=str) is what is stored
DumpTotals(totals) == [json |-> totals]

\* cache_get: a stored string is parsed with json.loads
LoadTotals(value) == value.json

\* cache_get(key): <<value>> while the key is stored and has not expired, << >> for None
cache_get(cache, t, key) ==
    IF key \in DOMAIN cache /\ t < cache[key].expires
    THEN <<LoadTotals(cache[key].value)>> ELSE << >>

\* cache_set(key, value, ttl)
cache_set(cache, t, key, value, ttl) ==
    [k \in DOMAIN cache \cup {key} |->
        IF k = key THEN [value |-> DumpTotals(value), expires |-> t + ttl] ELSE cache[k]]

\* cache_delete_pattern(pattern): delete_value of the pattern and of the
\* pattern followed by "*", each taken as the name of one key
DeletedByPattern(pattern) == {pattern, pattern \o <<"*">>}

cache_delete_pattern(cache, pattern) ==
    [k \in DOMAIN cache \ DeletedByPattern(pattern) |-> cache[k]]

\* invalidate_balance_cache(company) for a company that is given
invalidate_balance_cache(cache, company) ==
    cache_delete_pattern(cache_delete_pattern(cache, <<BalancePrefix, company>>),
                         <<GlTotalsPrefix, company>>)

\* nothing is cached and no GL Entry has been posted
GlCacheIdle ==
    /\ glCache = EmptyDict
    /\ glPosted = [c \in GlCompanies |-> 0]
    /\ glNow = 0
    /\ glLast = [called |-> FALSE]

\* the components that have a specification of their own further down, at rest
OthersIdle == GetOrExecuteIdle /\ HalfOpenIdle /\ GlCacheIdle

\* the utilities of ebalance/utils and the batch mapping at rest
UtilsIdle ==
    /\ IdemIdle /\ BreakerIdle /\ RetryIdle /\ ResilientIdle /\ JobsIdle /\ MappingIdle
    /\ OthersIdle

ClassifierInit ==
    /\ account \in Accounts
    /\ KEYWORD_CACHE = EmptyDict
    /\ MOF_CODES_BY_ROOT = EmptyDict
    /\ mappingDocs \in {MOF_ACCOUNTS \ failed : failed \in SUBSET FailedImports}
    /\ lruExisting = Unset
    /\ result = NoResult
    /\ firstResult = NoResult
    /\ repeated = FALSE
    /\ ThreadsIdle
    /\ RequestUntouched
    /\ UtilsIdle

\* suggest_mof_code(account_name, account_number, root_type):
\* find_best_mof_match, then get_suggestions, each behind _init_keyword_cache
SuggestMofCode ==
    LET g1 == init_keyword_cache(KEYWORD_CACHE, MOF_CODES_BY_ROOT)
        g2 == init_keyword_cache(g1.cache, g1.byRoot)
        existing == get_existing_mof_codes
        r == [called      |-> TRUE,
              best_match  |-> find_best_mof_match_fast(account, existing, g1.cache, g1.byRoot),
              suggestions |-> get_suggestions_fast(account, existing, g2.cache, g2.byRoot,
                                                   mappingDocs),
              existing    |-> existing,
              docs        |-> mappingDocs]
    IN /\ KEYWORD_CACHE' = g2.cache
       /\ MOF_CODES_BY_ROOT' = g2.byRoot
       /\ lruExisting' = existing
       /\ result' = r
       /\ firstResult' = IF firstResult = NoResult THEN r ELSE firstResult
       /\ repeated' = (firstResult # NoResult)
       /\ UNCHANGED <<account, mappingDocs, threadVars, requestVars, utilVars>>

\* suggest_mof_code for some other account: what it leaves behind in the
\* process is the initialized globals and the filled lru_cache slot
SuggestMofCodeOther ==
    LET g1 == init_keyword_cache(KEYWORD_CACHE, MOF_CODES_BY_ROOT)
        g2 == init_keyword_cache(g1.cache, g1.byRoot)
    IN /\ KEYWORD_CACHE' = g2.cache
       /\ MOF_CODES_BY_ROOT' = g2.byRoot
       /\ lruExisting' = get_existing_mof_codes
       /\ UNCHANGED <<account, mappingDocs, result, firstResult, repeated, threadVars, requestVars, utilVars>>

\* import_mof_accounts: every MOF account without a document gets one
ImportMofAccounts ==
    /\ mappingDocs # MOF_ACCOUNTS
    /\ mappingDocs' = MOF_ACCOUNTS
    /\ UNCHANGED <<account, KEYWORD_CACHE, MOF_CODES_BY_ROOT, lruExisting,
                   result, firstResult, repeated, threadVars, requestVars, utilVars>>

Init == ClassifierInit

Next ==
    \/ SuggestMofCode
    \/ SuggestMofCodeOther
    \/ ImportMofAccounts

Spec == Init /\ [][Next]_vars

----------------------------------------------------------------------------
(* Threads of one process inside find_best_mof_match.  _init_keyword_cache  *)
(* takes no lock: a thread can be preempted between its test of             *)
(* _KEYWORD_CACHE and its loops, and between two iterations of a loop.      *)

ThreadInit ==
    /\ account \in {a \in Accounts :
            /\ a.account_number = None
            /\ a.account_name = <<"i","n","v","e","n","t","o","r","y"," ","w","r","i","t","e","-","d","o","w","n">>
            /\ a.root_type \in {"Expense", "Asset"}}
    /\ KEYWORD_CACHE = EmptyDict
    /\ MOF_CODES_BY_ROOT = EmptyDict
    /\ mappingDocs = MOF_ACCOUNTS
    /\ lruExisting = Unset
    /\ result = NoResult
    /\ firstResult = NoResult
    /\ repeated = FALSE
    /\ ThreadsIdle
    /\ RequestUntouched
    /\ UtilsIdle

\* a request reaches find_best_mof_match(account) on thread t
EnterFindBestMofMatch(t) ==
    /\ pc[t] = "idle"
    /\ pc' = [pc EXCEPT ![t] = "init_check"]
    /\ UNCHANGED <<idx, threadMatch, classifierVars, requestVars, utilVars>>

\* _init_keyword_cache: `if _KEYWORD_CACHE: return`
InitCheck(t) ==
    /\ pc[t] = "init_check"
    /\ IF DOMAIN KEYWORD_CACHE # {}
       THEN pc' = [pc EXCEPT ![t] = "classify"] /\ idx' = idx
       ELSE pc' = [pc EXCEPT ![t] = "loop1"] /\ idx' = [idx EXCEPT ![t] = 1]
    /\ UNCHANGED <<threadMatch, classifierVars, requestVars, utilVars>>

\* one iteration of `for mof_code, keywords in ACCOUNT_KEYWORDS.items()`
InitLoop1(t) ==
    /\ pc[t] = "loop1"
    /\ KEYWORD_CACHE' = KeywordCacheStep(KEYWORD_CACHE, KeywordCodes[idx[t]])
    /\ IF idx[t] = Len(KeywordCodes)
       THEN pc' = [pc EXCEPT ![t] = "loop2"] /\ idx' = [idx EXCEPT ![t] = 1]
       ELSE pc' = pc /\ idx' = [idx EXCEPT ![t] = idx[t] + 1]
    /\ UNCHANGED <<threadMatch, account, MOF_CODES_BY_ROOT, mappingDocs, lruExisting,
                   result, firstResult, repeated, requestVars, utilVars>>

\* one iteration of `for mof_code in ACCOUNT_KEYWORDS.keys()`
InitLoop2(t) ==
    /\ pc[t] = "loop2"
    /\ MOF_CODES_BY_ROOT' = CodesByRootStep(MOF_CODES_BY_ROOT, KeywordCodes[idx[t]])
    /\ IF idx[t] = Len(KeywordCodes)
       THEN pc' = [pc EXCEPT ![t] = "classify"] /\ idx' = [idx EXCEPT ![t] = 0]
       ELSE pc' = pc /\ idx' = [idx EXCEPT ![t] = idx[t] + 1]
    /\ UNCHANGED <<threadMatch, account, KEYWORD_CACHE, mappingDocs, lruExisting,
                   result, firstResult, repeated, requestVars, utilVars>>

\* existing_mof_codes = _get_existing_mof_codes();
\* return find_best_mof_match_fast(account, existing_mof_codes)
Classify(t) ==
    /\ pc[t] = "classify"
    /\ LET existing == get_existing_mof_codes
       IN /\ lruExisting' = existing
          /\ threadMatch' = [threadMatch EXCEPT ![t] =
                [called     |-> TRUE,
                 best_match |-> find_best_mof_match_fast(account, existing,
                                    KEYWORD_CACHE, MOF_CODES_BY_ROOT)]]
    /\ pc' = [pc EXCEPT ![t] = "done"]
    /\ UNCHANGED <<idx, account, KEYWORD_CACHE, MOF_CODES_BY_ROOT, mappingDocs,
                   result, firstResult, repeated, requestVars, utilVars>>

ThreadNext ==
    \E t \in Threads :
        \/ EnterFindBestMofMatch(t)
        \/ InitCheck(t)
        \/ InitLoop1(t)
        \/ InitLoop2(t)
        \/ Classify(t)

ThreadSpec == ThreadInit /\ [][ThreadNext]_vars

----------------------------------------------------------------------------
(* The eBalance Report Request document *)

\* the workflow transitions the document knows (_get_action_from_state_change)
WorkflowTransitions ==
    { <<"Draft", "Ready for Review">>,
      <<"Ready for Review", "Pending Review">>,
      <<"Pending Review", "Pending Approval">>,
      <<"Pending Approval", "Approved">>,
      <<"Pending Review", "Rejected">>,
      <<"Pending Approval", "Rejected">>,
      <<"Rejected", "Draft">>,
      <<"Approved", "Submitted to MOF">>,
      <<"Submitted to MOF", "Confirmed">> }

\* a workflow action applied to the document; the document only logs it
\* (before_save, _log_workflow_change)
ApplyWorkflow ==
    /\ \E tr \in WorkflowTransitions :
          /\ workflow_state = tr[1]
          /\ workflow_state' = tr[2]
    /\ UNCHANGED <<status, report_user_org_hdr_id, external_id, validation_errors, sendReportCalls,
                   classifierVars, threadVars, utilVars>>

\* generate_report_data: status Generating, then Ready, or Failed with the
\* error when preview_balance_sheet or the summary raises
GenerateReportData ==
    /\ \E ok \in BOOLEAN :
          IF ok
          THEN status' = "Ready" /\ validation_errors' = validation_errors
          ELSE status' = "Failed" /\ validation_errors' = "error"
    /\ UNCHANGED <<workflow_state, report_user_org_hdr_id, external_id, sendReportCalls,
                   classifierVars, threadVars, utilVars>>

\* save_to_ebalance: status In Progress when the draft was saved at MOF,
\* the error kept in validation_errors when a call raised
SaveToEbalance ==
    /\ status \in {"Ready", "In Progress"}
    /\ report_user_org_hdr_id # NoValue
    /\ \E ok \in BOOLEAN :
          IF ok
          THEN status' = "In Progress" /\ validation_errors' = validation_errors
          ELSE status' = status /\ validation_errors' = "error"
    /\ UNCHANGED <<workflow_state, report_user_org_hdr_id, external_id, sendReportCalls,
                   classifierVars, threadVars, utilVars>>

\* the test that opens submit_report:
\* `if self.workflow_state and self.workflow_state != "Approved": frappe.throw`
ApprovalCheckPasses == ~(workflow_state # NoValue /\ workflow_state # "Approved")

\* what can come back while submit_report runs its try block:
\*   client_error  get_client() raises, nothing is sent
\*   send_error    client.send_report raises
\*   keys          MOF answers with validExpKeys or validCellKeys
\*   accepted      MOF answers without validation keys
\*   log_error     MOF accepts and create_approval_log raises
SubmitOutcomes == {"client_error", "send_error", "keys", "accepted", "log_error"}

\* `if valid_exp_keys or valid_cell_keys:` the status and the keys that are
\* saved before the frappe.throw
ValidationFailed == [status |-> "Failed", validation_errors |-> "keys"]

\* `except Exception as e:` of submit_report, on the document as it stands
SubmitExcept(doc) == [doc EXCEPT !.validation_errors = "error"]

\* submit_report
SubmitReport ==
    /\ ApprovalCheckPasses
    /\ status \in {"Ready", "In Progress"}
    /\ report_user_org_hdr_id # NoValue
    /\ \E outcome \in SubmitOutcomes :
          /\ sendReportCalls' =
                IF outcome = "client_error" THEN sendReportCalls
                ELSE sendReportCalls \cup {workflow_state}
          /\ CASE outcome \in {"client_error", "send_error"} ->
                    \* except: validation_errors = {"error": ...}; save; throw
                    status' = status /\ validation_errors' = "error"
               [] outcome = "keys" ->
                    \* status Failed and the keys are saved, then the
                    \* frappe.throw inside the try block is caught by its own
                    \* `except Exception`, which saves the error over the keys
                    LET doc == SubmitExcept(ValidationFailed)
                    IN status' = doc.status /\ validation_errors' = doc.validation_errors
               [] outcome = "accepted" ->
                    status' = "Submitted" /\ validation_errors' = NoValue
               [] outcome = "log_error" ->
                    status' = "Submitted" /\ validation_errors' = "error"
    /\ UNCHANGED <<workflow_state, report_user_org_hdr_id, external_id, classifierVars, threadVars, utilVars>>

\* check_status: Confirmed when MOF reports isConfirm, unchanged otherwise
CheckStatus ==
    /\ status \in {"Submitted", "Confirmed", "Rejected"}
    /\ report_user_org_hdr_id # NoValue
    /\ \E confirmed \in BOOLEAN :
          status' = IF confirmed THEN "Confirmed" ELSE status
    /\ UNCHANGED <<workflow_state, report_user_org_hdr_id, external_id, validation_errors,
                   sendReportCalls, classifierVars, threadVars, utilVars>>

\* check_pending_reports (daily task) on a request its filter selects and
\* that has an external_id: Submitted when MOF reports CONFIRMED, Error when
\* MOF reports REJECTED, unchanged on any other answer or on an exception
CheckPendingReports ==
    /\ status \in {"Draft", "In Progress", "Pending"}
    /\ external_id # NoValue
    /\ \E mof \in {"CONFIRMED", "REJECTED", "PENDING", "exception"} :
          status' = CASE mof = "CONFIRMED" -> "Submitted"
                      [] mof = "REJECTED"  -> "Error"
                      [] OTHER             -> status
    /\ UNCHANGED <<workflow_state, report_user_org_hdr_id, external_id, validation_errors,
                   sendReportCalls, classifierVars, threadVars, utilVars>>

RequestInit ==
    /\ account = [account_name |-> None, account_number |-> None, root_type |-> NoRootType]
    /\ KEYWORD_CACHE = EmptyDict
    /\ MOF_CODES_BY_ROOT = EmptyDict
    /\ mappingDocs = MOF_ACCOUNTS
    /\ lruExisting = Unset
    /\ result = NoResult
    /\ firstResult = NoResult
    /\ repeated = FALSE
    /\ ThreadsIdle
    /\ RequestCreated
    /\ UtilsIdle

RequestNext ==
    \/ ApplyWorkflow
    \/ GenerateReportData
    \/ SaveToEbalance
    \/ SubmitReport
    \/ CheckStatus
    \/ CheckPendingReports

RequestSpec == RequestInit /\ [][RequestNext]_vars

----------------------------------------------------------------------------
(* utils/idempotency.py: the idempotent decorator and get_or_execute, for   *)
(* calls served one after another                                           *)

\* key_params of the decorator: None, an empty list, or a list of names
KeyParamsChoices == {NoKeyParams, {}, {"report_id"}, {"period"}}

\* wrapper: `if key_params:` keeps the named arguments, else all of them
KeyParamsOf(args, key_params) ==
    IF key_params # NoKeyParams /\ key_params # {}
    THEN [k \in DOMAIN args \cap key_params |-> args[k]]
    ELSE args

\* the live results of earlier successful executions with the given key parameters
LiveResults(operation, params) ==
    {d.result : d \in {e \in idemDone :
        e.operation = operation /\ e.params = params /\ idemNow < e.expires}}

\* check, then either the stored result or func and store
\* (wrapper of idempotent, lines 197-213; get_or_execute, lines 147-162)
RunIdempotent(operation, params, args, ttl_hours, outcome) ==
    LET key == generate_key(operation, params)
        check_result == IdempotencyCheck(idemCache, idemNow, key)
        fresh == [args |-> args, run |-> idemExecs + 1]
        call == [called |-> TRUE, operation |-> operation, params |-> params,
                 liveBefore |-> LiveResults(operation, params)]
    IN IF check_result.is_duplicate
       THEN /\ idemLast' = [executed |-> FALSE, raised |-> FALSE,
                            returned |-> check_result.cached_result[1]] @@ call
            /\ UNCHANGED <<idemCache, idemExecs, idemDone>>
       ELSE /\ idemExecs < MaxExecs
            /\ idemExecs' = idemExecs + 1
            /\ IF outcome = "raise"
               THEN /\ idemLast' = [executed |-> TRUE, raised |-> TRUE] @@ call
                    /\ UNCHANGED <<idemCache, idemDone>>
               ELSE /\ idemLast' = [executed |-> TRUE, raised |-> FALSE,
                                    returned |-> fresh] @@ call
                    /\ idemCache' = IdempotencyStore(idemCache, idemNow, key, fresh, ttl_hours)
                    /\ idemDone' = idemDone \cup
                          {[operation |-> operation, params |-> params, key |-> key,
                            result |-> fresh, expires |-> idemNow + ttl_hours]}

idemFrame == <<classifierVars, threadVars, requestVars, breakerVars, retryVars, resilientVars,
    jobVars, mapVars, otherVars>>

\* a call of the function decorated with
\* @idempotent("submit_report", ttl_hours, key_params)
IdempotentCall ==
    /\ \E args \in IdemArgs, outcome \in {"return", "raise"} :
          RunIdempotent("submit_report", KeyParamsOf(args, idemKeyParams), args,
                        TtlHours, outcome)
    /\ UNCHANGED <<idemNow, idemKeyParams, idemFrame>>

\* idempotency.get_or_execute("check_status", func, ttl_hours, **params)
GetOrExecute ==
    /\ \E args \in IdemArgs, outcome \in {"return", "raise"} :
          RunIdempotent("check_status", args, args, TtlHours, outcome)
    /\ UNCHANGED <<idemNow, idemKeyParams, idemFrame>>

\* IdempotencyManager.invalidate(key)
Invalidate ==
    /\ \E key \in DOMAIN idemCache :
          /\ idemCache' = [k \in DOMAIN idemCache \ {key} |-> idemCache[k]]
          /\ idemDone' = {d \in idemDone : d.key # key}
    /\ UNCHANGED <<idemNow, idemExecs, idemKeyParams, idemLast, idemFrame>>

\* an hour passes
IdemTick ==
    /\ idemNow < MaxIdemClock
    /\ idemNow' = idemNow + 1
    /\ UNCHANGED <<idemCache, idemExecs, idemKeyParams, idemDone, idemLast, idemFrame>>

\* the classifier before its first call, with no account under classification
ClassifierIdle ==
    /\ account = [account_name |-> None, account_number |-> None, root_type |-> NoRootType]
    /\ KEYWORD_CACHE = EmptyDict
    /\ MOF_CODES_BY_ROOT = EmptyDict
    /\ mappingDocs = MOF_ACCOUNTS
    /\ lruExisting = Unset
    /\ result = NoResult
    /\ firstResult = NoResult
    /\ repeated = FALSE

IdemInit ==
    /\ ClassifierIdle
    /\ ThreadsIdle
    /\ RequestUntouched
    /\ BreakerIdle /\ RetryIdle /\ ResilientIdle /\ JobsIdle /\ MappingIdle /\ OthersIdle
    /\ idemCache = EmptyDict
    /\ idemNow = 0
    /\ idemExecs = 0
    /\ idemKeyParams \in KeyParamsChoices
    /\ idemDone = {}
    /\ idemLast = [called |-> FALSE]

IdemNext ==
    \/ IdempotentCall
    \/ GetOrExecute
    \/ Invalidate
    \/ IdemTick

IdemSpec == IdemInit /\ [][IdemNext]_vars

----------------------------------------------------------------------------
(* utils/resilience.py: calls through a circuit breaker, one after another  *)

breakerFrame == <<classifierVars, threadVars, requestVars, idemVars, retryVars, resilientVars,
    jobVars, mapVars, otherVars>>

\* a call of a function decorated with the breaker: _should_allow_request,
\* then CircuitBreakerOpen, or the function and _on_success or _on_failure
BreakerCall ==
    /\ \E outcome \in {"return", "raise"} :
          LET w == BreakerWrapper(breaker, breakerCache, wallClock, outcome)
              failed == w.allow /\ outcome = "raise"
          IN /\ breaker' = w.b
             /\ breakerCache' = w.cache
             /\ cbConsecutive' = IF ~w.allow THEN cbConsecutive
                                 ELSE IF failed THEN cbConsecutive + 1 ELSE 0
             /\ cbLast' = [called |-> TRUE, at |-> wallClock, before |-> breaker,
                           invoked |-> w.allow, failed |-> failed, after |-> w.b]
    /\ UNCHANGED <<wallClock, breakerFrame>>

\* CircuitBreaker.reset
BreakerReset ==
    /\ breaker # NewBreaker
    /\ breaker' = NewBreaker
    /\ breakerCache' = save_state(NewBreaker)
    /\ cbConsecutive' = 0
    /\ cbLast' = [called |-> FALSE]
    /\ UNCHANGED <<wallClock, breakerFrame>>

\* the worker process restarts: the module-level breaker is constructed
\* again and restores its state from the cache
BreakerRestart ==
    /\ <<breaker, cbConsecutive, cbLast>> # <<load_state(breakerCache), 0, [called |-> FALSE]>>
    /\ breaker' = load_state(breakerCache)
    /\ cbConsecutive' = 0
    /\ cbLast' = [called |-> FALSE]
    /\ UNCHANGED <<breakerCache, wallClock, breakerFrame>>

\* a second passes
ClockTick ==
    /\ wallClock < MaxClock
    /\ wallClock' = wallClock + 1
    /\ UNCHANGED <<breaker, breakerCache, cbConsecutive, cbLast, breakerFrame>>

BreakerInit ==
    /\ ClassifierIdle
    /\ ThreadsIdle
    /\ RequestUntouched
    /\ UtilsIdle

BreakerNext ==
    \/ BreakerCall
    \/ BreakerReset
    \/ BreakerRestart
    \/ ClockTick

BreakerSpec == BreakerInit /\ [][BreakerNext]_vars

----------------------------------------------------------------------------
(* utils/resilience.py: a call of a function decorated with retry_with_backoff *)

retryFrame == <<classifierVars, threadVars, requestVars, idemVars, breakerVars, resilientVars,
    jobVars, mapVars, otherVars>>

\* wrapper is entered: last_exception = None, delay = initial_delay, and the
\* loop starts with attempt 0
RetryCall ==
    /\ retryCall.status \in {"idle", "returned", "raised"}
    /\ \E max_retries \in 0..MaxRetries :
          retryCall' = [status |-> "running", max_retries |-> max_retries, attempt |-> 0,
                        delay |-> InitialDelay, outcomes |-> << >>,
                        last_exception |-> NoValue, slept |-> << >>]
    /\ UNCHANGED retryFrame

\* one pass of the loop body up to time.sleep: func returns, or raises an
\* exception that is not caught, or raises a caught exception and the loop
\* either breaks and raises last_exception or goes on to sleep
RetryAttempt ==
    /\ retryCall.status = "running"
    /\ \E outcome \in FuncOutcomes :
          LET invoked == [retryCall EXCEPT !.outcomes = Append(@, outcome)]
          IN retryCall' =
                CASE outcome = "return" -> [invoked EXCEPT !.status = "returned"]
                  [] outcome \notin RetryableExceptions \cup {"return"} ->
                        [invoked EXCEPT !.status = "raised", !.last_exception = outcome]
                  [] OTHER ->
                        IF LastAttempt(retryCall.attempt, retryCall.max_retries)
                        THEN [invoked EXCEPT !.status = "raised", !.last_exception = outcome]
                        ELSE [invoked EXCEPT !.status = "sleeping", !.last_exception = outcome]
    /\ UNCHANGED retryFrame

\* time.sleep(delay), the next delay, and the next value of attempt
RetrySleep ==
    /\ retryCall.status = "sleeping"
    /\ retryCall' = [retryCall EXCEPT !.status = "running",
                                      !.slept = Append(@, retryCall.delay),
                                      !.delay = NextDelay(retryCall.delay),
                                      !.attempt = @ + 1]
    /\ UNCHANGED retryFrame

RetryInit ==
    /\ ClassifierIdle
    /\ ThreadsIdle
    /\ RequestUntouched
    /\ UtilsIdle

RetryNext ==
    \/ RetryCall
    \/ RetryAttempt
    \/ RetrySleep

RetrySpec == RetryInit /\ [][RetryNext]_vars

----------------------------------------------------------------------------
(* utils/resilience.py: resilient_call on concurrent threads, and direct    *)
(* non-blocking use of the rate limiter                                     *)

resilientFrame == <<classifierVars, threadVars, requestVars, idemVars, retryVars,
    jobVars, mapVars, otherVars>>

\* the count of admissions per second, with one more at time t
Admit(t) == [rlAdmitted EXCEPT ![t] = @ + 1]

\* resilient_call reaches the breaker's wrapper: CircuitBreakerOpen, or on
\* to the rate limiter's wrapper, where acquire notes start_time
ResilientEnter(c) ==
    /\ rcPc[c] = "idle"
    /\ LET a == should_allow_request(breaker, breakerCache, wallClock)
       IN /\ breaker' = a.b
          /\ breakerCache' = a.cache
          /\ rcPc' = [rcPc EXCEPT ![c] = IF a.allow THEN "acquire" ELSE "idle"]
          /\ rcStart' = [rcStart EXCEPT ![c] = IF a.allow THEN wallClock ELSE @]
    /\ UNCHANGED <<limiter, rlAdmitted, rcPolled, rcFuncRaised, wallClock,
                   cbConsecutive, cbLast, resilientFrame>>

\* one pass of the loop of acquire(blocking=True, timeout): a token, or the
\* timeout is over and the wrapper raises RateLimitExceeded, which the
\* breaker's wrapper catches as a failure of its function, or time.sleep(0.1)
LimiterPoll(c) ==
    /\ rcPc[c] = "acquire"
    /\ LET r == acquire_once(limiter, wallClock)
           timed_out == wallClock - rcStart[c] >= AcquireTimeout
           f == on_failure(breaker, breakerCache, wallClock)
       IN /\ limiter' = r.l
          /\ rlAdmitted' = IF r.ok THEN Admit(wallClock) ELSE rlAdmitted
          /\ rcPc' = [rcPc EXCEPT ![c] = IF r.ok THEN "call"
                                         ELSE IF timed_out THEN "idle" ELSE "acquire"]
          /\ rcPolled' = IF r.ok \/ timed_out THEN rcPolled \ {c} ELSE rcPolled \cup {c}
          /\ breaker' = IF ~r.ok /\ timed_out THEN f.b ELSE breaker
          /\ breakerCache' = IF ~r.ok /\ timed_out THEN f.cache ELSE breakerCache
    /\ UNCHANGED <<rcStart, rcFuncRaised, wallClock, cbConsecutive, cbLast, resilientFrame>>

\* the function behind retry_with_backoff returns or raises for good, and
\* the breaker's wrapper runs _on_success or _on_failure
ResilientInvoke(c) ==
    /\ rcPc[c] = "call"
    /\ \E outcome \in {"return", "raise"} :
          LET done == IF outcome = "return" THEN on_success(breaker, breakerCache)
                      ELSE on_failure(breaker, breakerCache, wallClock)
          IN /\ breaker' = done.b
             /\ breakerCache' = done.cache
             /\ rcFuncRaised' = (rcFuncRaised \/ outcome = "raise")
    /\ rcPc' = [rcPc EXCEPT ![c] = "idle"]
    /\ UNCHANGED <<limiter, rlAdmitted, rcStart, rcPolled, wallClock,
                   cbConsecutive, cbLast, resilientFrame>>

\* ebalance_rate_limiter.acquire(blocking=False)
TryAcquire ==
    /\ LET r == acquire_once(limiter, wallClock)
       IN /\ limiter' = r.l
          /\ rlAdmitted' = IF r.ok THEN Admit(wallClock) ELSE rlAdmitted
    /\ UNCHANGED <<rcPc, rcStart, rcPolled, rcFuncRaised, breakerVars, resilientFrame>>

\* a second passes; a thread waiting in acquire polls every 0.1 s, so it
\* has polled since the second before
ResilientTick ==
    /\ wallClock < MaxClock
    /\ \A c \in Callers : rcPc[c] = "acquire" => c \in rcPolled
    /\ wallClock' = wallClock + 1
    /\ rcPolled' = {}
    /\ UNCHANGED <<limiter, rlAdmitted, rcPc, rcStart, rcFuncRaised,
                   breaker, breakerCache, cbConsecutive, cbLast, resilientFrame>>

ResilientInit ==
    /\ ClassifierIdle
    /\ ThreadsIdle
    /\ RequestUntouched
    /\ UtilsIdle

ResilientNext ==
    \/ \E c \in Callers :
          \/ ResilientEnter(c)
          \/ LimiterPoll(c)
          \/ ResilientInvoke(c)
    \/ TryAcquire
    \/ ResilientTick

ResilientSpec == ResilientInit /\ [][ResilientNext]_vars

----------------------------------------------------------------------------
(* Background jobs with retry: the queue and its worker *)

jobFrame == <<classifierVars, threadVars, requestVars, idemVars, breakerVars, retryVars,
              resilientVars, mapVars, otherVars>>

\* enqueue_with_retry(method, max_retries=n): frappe.enqueue takes the job,
\* or raises on the method keyword it is handed twice
EnqueueWithRetry ==
    \E name \in JobNames, n \in 0..MaxJobRetries, accepted \in BOOLEAN :
       /\ ~jobStats[name].enqueued
       /\ jobStats' = [jobStats EXCEPT ![name].enqueued = TRUE, ![name].max_retries = n]
       /\ jobQueue' = IF accepted THEN Append(jobQueue, RetryMetadata(name, n)) ELSE jobQueue
       /\ UNCHANGED <<jobLast, jobAdmins, jobFrame>>

\* the worker runs _execute_with_retry for the job at the head of the queue;
\* the retry is enqueued after commit, and the exception that ends the job
\* either lets it through or drops it with the transaction
ExecuteWithRetry ==
    \E outcome \in JobOutcomes, delivered \in BOOLEAN, readable \in BOOLEAN :
       /\ jobQueue # << >>
       /\ LET job == Head(jobQueue)
              name == job.name
              retry == outcome = "fail" /\ RetriesRemaining(job.retry_count, job.max_retries)
              final == outcome = "fail" /\ ~RetriesRemaining(job.retry_count, job.max_retries)
          IN  /\ jobStats' =
                    [jobStats EXCEPT
                        ![name].execs = @ + 1,
                        ![name].reenqueues = IF retry THEN @ + 1 ELSE @,
                        ![name].error_logs = IF final THEN @ + 1 ELSE @,
                        ![name].notify_calls = IF final THEN @ + 1 ELSE @,
                        ![name].published =
                            IF final THEN @ + notify_job_failure(jobAdmins, readable) ELSE @]
              /\ jobLast' = [jobLast EXCEPT ![name] =
                    [retry_count |-> job.retry_count, outcome |-> outcome,
                     reenqueued |-> retry]]
              /\ jobQueue' = IF retry /\ delivered
                                THEN Append(Tail(jobQueue), RetryJob(job))
                                ELSE Tail(jobQueue)
       /\ UNCHANGED <<jobAdmins, jobFrame>>

JobInit ==
    /\ ClassifierIdle
    /\ ThreadsIdle
    /\ RequestUntouched
    /\ IdemIdle /\ BreakerIdle /\ RetryIdle /\ ResilientIdle /\ MappingIdle /\ OthersIdle
    /\ jobQueue = << >>
    /\ jobStats = [j \in JobNames |-> NewJobStats]
    /\ jobLast = [j \in JobNames |-> NoExecution]
    /\ jobAdmins \in 0..MaxAdmins

JobNext ==
    \/ EnqueueWithRetry
    \/ ExecuteWithRetry

JobSpec == JobInit /\ [][JobNext]_vars

----------------------------------------------------------------------------
(* Batch mapping: auto_map_accounts and run_auto_mapping *)

mapFrame == <<account, result, firstResult, repeated, mappingDocs, threadVars, requestVars,
              idemVars, breakerVars, retryVars, resilientVars, jobVars, otherVars>>

\* auto_map_accounts(company, dry_run); the saves of the documents in
\* `failed` raise inside the try/except of _batch_add_mappings
AutoMap(company, dry_run) ==
    LET g == init_keyword_cache(KEYWORD_CACHE, MOF_CODES_BY_ROOT)
        accounts == SelectAccounts(accountRows, company)
        existing_mof_codes == get_existing_mof_codes
        existing_mappings == IF ~dry_run THEN mappingItems ELSE {}
        out == MapLoop(accounts, 1, dry_run, existing_mof_codes, existing_mappings,
                       g.cache, g.byRoot,
                       [matched |-> << >>, unmatched |-> << >>, batch_inserts |-> << >>])
        batch == out.batch_inserts
        codes == BatchCodes(batch)
    IN /\ mapCalls < MaxMapCalls
       /\ mapCalls' = mapCalls + 1
       /\ KEYWORD_CACHE' = g.cache
       /\ MOF_CODES_BY_ROOT' = g.byRoot
       /\ IF batch # << >>
          THEN /\ \E failed \in SUBSET codes :
                     /\ mappingItems' = mappingItems \cup BatchRows(batch, failed)
                     /\ autoMapped' = autoMapped \cup (codes \ failed)
                     /\ docSaves' = docSaves + Cardinality(codes \ failed)
               /\ dbCommits' = dbCommits + 1
               /\ lruExisting' = Unset
          ELSE /\ UNCHANGED <<mappingItems, autoMapped, docSaves, dbCommits>>
               /\ lruExisting' = existing_mof_codes
       /\ mapLast' = [called |-> TRUE, dry_run |-> dry_run,
                      matched |-> out.matched, unmatched |-> out.unmatched,
                      items |-> mappingItems, auto_mapped |-> autoMapped,
                      saves |-> docSaves, commits |-> dbCommits]
       /\ UNCHANGED <<accountRows, mapFrame>>

\* a direct call of auto_map_accounts
AutoMapAccounts ==
    \E company \in Companies, dry_run \in BOOLEAN :
       AutoMap(company, dry_run)

\* the whitelisted run_auto_mapping(company, dry_run)
RunAutoMapping ==
    \E company \in Companies, arg \in DryRunArgs :
       AutoMap(company, DryRunFlag(arg))

MapInit ==
    /\ account = [account_name |-> None, account_number |-> None, root_type |-> NoRootType]
    /\ KEYWORD_CACHE = EmptyDict
    /\ MOF_CODES_BY_ROOT = EmptyDict
    /\ mappingDocs \in {MOF_ACCOUNTS \ failed : failed \in SUBSET FailedImports}
    /\ lruExisting = Unset
    /\ result = NoResult
    /\ firstResult = NoResult
    /\ repeated = FALSE
    /\ ThreadsIdle
    /\ RequestUntouched
    /\ IdemIdle /\ BreakerIdle /\ RetryIdle /\ ResilientIdle /\ JobsIdle /\ OthersIdle
    /\ accountRows \in {LedgerNames, LedgerNames \ {"a2"}}
    /\ mappingItems \in SUBSET {<<c1112, "a1">>}
    /\ autoMapped = {}
    /\ docSaves = 0
    /\ dbCommits = 0
    /\ mapLast = NoMapCall
    /\ mapCalls = 0

MapNext ==
    \/ AutoMapAccounts
    \/ RunAutoMapping

MapSpec == MapInit /\ [][MapNext]_vars

----------------------------------------------------------------------------
(* get_or_execute and the idempotent wrapper under concurrent workers *)

geFrame == <<classifierVars, threadVars, requestVars, breakerVars, retryVars, resilientVars,
             jobVars, mapVars, hoVars, glVars, idemNow, idemKeyParams, idemDone, idemLast>>

\* key = generate_key(operation, **params); check_result = check(key):
\* a duplicate returns the stored result, anything else goes on to func
WorkerCheck(w) ==
    /\ gePc[w] = "idle"
    /\ \E operation \in IdemOperations, args \in IdemArgs :
          LET params == IF operation = "submit_report"
                           THEN KeyParamsOf(args, idemKeyParams) ELSE args
              key == generate_key(operation, params)
              check_result == IdempotencyCheck(idemCache, idemNow, key)
          IN IF check_result.is_duplicate
             THEN /\ geLocal' = [geLocal EXCEPT ![w] =
                         [operation |-> operation, args |-> args, key |-> key,
                          was_cached |-> TRUE, result |-> check_result.cached_result[1]]]
                  /\ UNCHANGED gePc
             ELSE /\ geLocal' = [geLocal EXCEPT ![w] =
                         [operation |-> operation, args |-> args, key |-> key,
                          was_cached |-> FALSE, result |-> NoValue]]
                  /\ gePc' = [gePc EXCEPT ![w] = "execute"]
    /\ UNCHANGED <<idemCache, idemExecs, geReturned, geFrame>>

\* result = func(**params): it returns, or raises and nothing is stored
WorkerExecute(w) ==
    /\ gePc[w] = "execute"
    /\ idemExecs < MaxExecs
    /\ idemExecs' = idemExecs + 1
    /\ \E outcome \in {"return", "raise"} :
          IF outcome = "return"
          THEN /\ geLocal' = [geLocal EXCEPT ![w].result =
                      [args |-> geLocal[w].args, run |-> idemExecs + 1]]
               /\ geReturned' = [geReturned EXCEPT
                      ![<<geLocal[w].operation, geLocal[w].args>>] = @ + 1]
               /\ gePc' = [gePc EXCEPT ![w] = "store"]
          ELSE /\ gePc' = [gePc EXCEPT ![w] = "idle"]
               /\ UNCHANGED <<geLocal, geReturned>>
    /\ UNCHANGED <<idemCache, geFrame>>

\* store(key, result, ttl_hours), and the result is returned
WorkerStore(w) ==
    /\ gePc[w] = "store"
    /\ idemCache' = IdempotencyStore(idemCache, idemNow, geLocal[w].key, geLocal[w].result,
                                     TtlHours)
    /\ gePc' = [gePc EXCEPT ![w] = "idle"]
    /\ UNCHANGED <<idemExecs, geLocal, geReturned, geFrame>>

WorkerInit ==
    /\ ClassifierIdle
    /\ ThreadsIdle
    /\ RequestUntouched
    /\ UtilsIdle

WorkerNext ==
    \E w \in Workers :
       \/ WorkerCheck(w)
       \/ WorkerExecute(w)
       \/ WorkerStore(w)

WorkerSpec == WorkerInit /\ [][WorkerNext]_vars

----------------------------------------------------------------------------
(* The circuit breaker under concurrent threads *)

hoFrame == <<classifierVars, threadVars, requestVars, idemVars, retryVars, resilientVars,
             jobVars, mapVars, geVars, glVars, cbConsecutive, cbLast>>

\* wrapper, up to the call of func: _should_allow_request under the lock,
\* then CircuitBreakerOpen or on to func
ThreadEnter(c) ==
    /\ hoPc[c] = "idle"
    /\ LET a == should_allow_request(breaker, breakerCache, wallClock)
       IN /\ breaker' = a.b
          /\ breakerCache' = a.cache
          /\ hoPc' = [hoPc EXCEPT ![c] = IF a.allow THEN "call" ELSE "idle"]
          /\ hoAdmitted' =
                IF a.allow /\ breaker.state = "open" THEN 1
                ELSE IF a.allow /\ breaker.state = "half_open" THEN hoAdmitted + 1
                ELSE hoAdmitted
    /\ UNCHANGED <<wallClock, hoFrame>>

\* func returns or raises, and _on_success or _on_failure runs under the lock
ThreadFinish(c) ==
    /\ hoPc[c] = "call"
    /\ \E outcome \in {"return", "raise"} :
          LET done == IF outcome = "return" THEN on_success(breaker, breakerCache)
                      ELSE on_failure(breaker, breakerCache, wallClock)
          IN /\ breaker' = done.b
             /\ breakerCache' = done.cache
    /\ hoPc' = [hoPc EXCEPT ![c] = "idle"]
    /\ UNCHANGED <<hoAdmitted, wallClock, hoFrame>>

\* a second passes
ThreadTick ==
    /\ wallClock < MaxClock
    /\ wallClock' = wallClock + 1
    /\ UNCHANGED <<breaker, breakerCache, hoPc, hoAdmitted, hoFrame>>

HalfOpenInit ==
    /\ ClassifierIdle
    /\ ThreadsIdle
    /\ RequestUntouched
    /\ UtilsIdle

HalfOpenNext ==
    \/ \E c \in BreakerThreads :
          \/ ThreadEnter(c)
          \/ ThreadFinish(c)
    \/ ThreadTick

HalfOpenSpec == HalfOpenInit /\ [][HalfOpenNext]_vars

----------------------------------------------------------------------------
(* The cache of GL totals and the GL Entry hook *)

glFrame == <<classifierVars, threadVars, requestVars, idemVars, breakerVars, retryVars,
             resilientVars, jobVars, mapVars, geVars, hoVars>>

\* the totals of a company's ledger after its GL Entries so far
LedgerTotals(company) == [company |-> company, entries |-> glPosted[company]]

\* set_cached_gl_totals(company, from_date, to_date, totals) with the totals
\* just computed from the ledger
SetCachedGlTotals ==
    /\ \E company \in GlCompanies, range \in GlRanges :
          glCache' = cache_set(glCache, glNow, GlTotalsKey(company, range),
                               LedgerTotals(company), GlTotalsTtl)
    /\ UNCHANGED <<glPosted, glNow, glLast, glFrame>>

\* get_cached_gl_totals(company, from_date, to_date, force_refresh)
GetCachedGlTotals ==
    /\ \E company \in GlCompanies, range \in GlRanges, force_refresh \in BOOLEAN :
          LET cached == IF ~force_refresh
                        THEN cache_get(glCache, glNow, GlTotalsKey(company, range))
                        ELSE << >>
          IN glLast' = [called |-> TRUE, company |-> company, returned |-> cached,
                        ledger |-> LedgerTotals(company)]
    /\ UNCHANGED <<glCache, glPosted, glNow, glFrame>>

\* a GL Entry of the company is posted and the hook on_gl_entry_update runs
OnGlEntryUpdate ==
    /\ \E company \in GlCompanies :
          /\ glPosted[company] < MaxGlEntries
          /\ glPosted' = [glPosted EXCEPT ![company] = @ + 1]
          /\ glCache' = invalidate_balance_cache(glCache, company)
    /\ UNCHANGED <<glNow, glLast, glFrame>>

\* one TTL period of the cache passes
GlTick ==
    /\ glNow < MaxGlClock
    /\ glNow' = glNow + 1
    /\ UNCHANGED <<glCache, glPosted, glLast, glFrame>>

GlInit ==
    /\ ClassifierIdle
    /\ ThreadsIdle
    /\ RequestUntouched
    /\ UtilsIdle

GlNext ==
    \/ SetCachedGlTotals
    \/ GetCachedGlTotals
    \/ OnGlEntryUpdate
    \/ GlTick

GlSpec == GlInit /\ [][GlNext]_vars



----------------------------------------------------------------------------
(* Properties of the classifier, checked under Spec *)

\* the normalized name of the account under classification
AccountText ==
    normalize_text(IF Truthy(account.account_name) THEN account.account_name ELSE <<>>)

\* the score the keyword cache gives a code on the account's normalized name
Score(code) ==
    calculate_keyword_score_fast(AccountText, KEYWORD_CACHE[code].keyword_set,
                                 KEYWORD_CACHE[code].max_words)

\* the last call returned in strategy 1 or 2
NumberStep ==
    \/ ExactNumberMatch(account, result.existing)
    \/ PrefixNumberMatch(account, result.existing)

\* the candidates of the keyword strategy in the last call
Candidates ==
    LET codes == CompatibleCodes(account.root_type, MOF_CODES_BY_ROOT)
    IN {c \in {codes[i] : i \in 1..Len(codes)} :
            c \in result.existing /\ c \in DOMAIN KEYWORD_CACHE}

PositiveCandidates == {c \in Candidates : Score(c) > 0}

\* position of a code in catalog iteration order
CatalogPos(code) == CHOOSE i \in 1..Len(KeywordCodes) : KeywordCodes[i] = code

RootSupplied == account.root_type \in DOMAIN ROOT_TYPE_RANGES

InCategory(code, root_type) == code[1] \in ROOT_TYPE_RANGES[root_type]

\* C1 as stated: with a root type supplied, the returned code starts with a
\* digit of that root type's prefix set, whichever strategy returned it.
C1_AnyStepInCategory ==
    (result.called /\ RootSupplied /\ result.best_match # None)
        => InCategory(result.best_match, account.root_type)

\* C1 amended: with a root type supplied, a code returned by the keyword
\* strategy (neither the account number nor its 4-character prefix is an
\* existing code) starts with a digit of that root type's prefix set.
C1_KeywordStepInCategory ==
    (result.called /\ RootSupplied /\ ~NumberStep /\ result.best_match # None)
        => InCategory(result.best_match, account.root_type)

\* a keyword match was returned while a code of another category scored as high
C1_Witness ==
    /\ result.called /\ RootSupplied /\ ~NumberStep /\ result.best_match # None
    /\ \E c \in result.existing \cap DOMAIN KEYWORD_CACHE :
          /\ ~InCategory(c, account.root_type)
          /\ Score(c) >= Score(result.best_match)

\* C2 as stated: an account number equal to a catalog code is returned as the match.
C2_CatalogNumberMatches ==
    (result.called /\ Truthy(account.account_number)
        /\ account.account_number \in DOMAIN ACCOUNT_KEYWORDS)
        => result.best_match = account.account_number

\* C2 amended: an account number equal to an existing MOF code (a name of a
\* MOF Account Mapping document, as _get_existing_mof_codes returned it) is
\* returned as the match, whatever the account name and root type.
C2_ExistingNumberMatches ==
    (result.called /\ Truthy(account.account_number)
        /\ account.account_number \in result.existing)
        => result.best_match = account.account_number

\* the number won against a root type of another category and against a
\* name the keyword strategy would have matched to another code
C2_Witness ==
    /\ result.called
    /\ Truthy(account.account_number)
    /\ account.account_number \in result.existing
    /\ result.best_match = account.account_number
    /\ RootSupplied /\ ~InCategory(account.account_number, account.root_type)
    /\ \E c \in Candidates : c # account.account_number /\ Score(c) >= 2

\* the highest score among the candidates, 0 when there is none
BestScore ==
    IF PositiveCandidates = {} THEN 0
    ELSE LET top == CHOOSE c \in PositiveCandidates :
                        \A d \in PositiveCandidates : Score(d) <= Score(c)
         IN Score(top)

\* C3: the keyword strategy returns a candidate only if its score is at
\* least 2, and returns no match whenever the best candidate score is below 2.
C3_ScoreThreshold ==
    (result.called /\ ~NumberStep) =>
        /\ result.best_match # None =>
              (result.best_match \in Candidates /\ Score(result.best_match) >= 2)
        /\ BestScore < 2 => result.best_match = None

\* a candidate scored 1, the best score, and no match was reported
C3_Witness ==
    result.called /\ ~NumberStep /\ BestScore = 1 /\ result.best_match = None

\* C4: the keyword match has the highest score of all candidates, and among
\* the candidates with that score it comes first in catalog iteration order.
C4_HighestScoreFirstWins ==
    (result.called /\ ~NumberStep /\ result.best_match # None) =>
        \A c \in Candidates :
            /\ Score(c) <= Score(result.best_match)
            /\ Score(c) = Score(result.best_match)
                  => CatalogPos(result.best_match) <= CatalogPos(c)

\* the returned candidate shares its score with another candidate
C4_Witness ==
    /\ result.called /\ ~NumberStep /\ result.best_match # None
    /\ \E c \in Candidates \ {result.best_match} : Score(c) = Score(result.best_match)

\* C5: when the account name holds a keyword phrase of the catalog verbatim,
\* the score of the code owning the phrase is at least the phrase's word count.
C5_VerbatimPhraseScore ==
    (result.called /\ Truthy(account.account_name)) =>
        \A code \in DOMAIN ACCOUNT_KEYWORDS :
            \A i \in 1..Len(ACCOUNT_KEYWORDS[code]) :
                Contains(account.account_name, ACCOUNT_KEYWORDS[code][i])
                    => /\ code \in DOMAIN KEYWORD_CACHE
                       /\ Score(code) >= WordCount(ACCOUNT_KEYWORDS[code][i])

\* the name holds a phrase of two words or more next to other text
C5_Witness ==
    /\ result.called /\ Truthy(account.account_name)
    /\ \E code \in DOMAIN ACCOUNT_KEYWORDS :
          \E i \in 1..Len(ACCOUNT_KEYWORDS[code]) :
              /\ Contains(account.account_name, ACCOUNT_KEYWORDS[code][i])
              /\ WordCount(ACCOUNT_KEYWORDS[code][i]) >= 2
              /\ Len(account.account_name) > Len(ACCOUNT_KEYWORDS[code][i])

\* C6 as stated: an empty or blank account name gives no match and no
\* suggestions, whatever the other fields of the account.
C6_EmptyNameNoMatch ==
    (result.called /\ AccountText = <<>>)
        => (result.best_match = None /\ result.suggestions = <<>>)

\* C6 amended: an empty or blank account name gives no suggestions, and no
\* match unless the account number or its first four characters is an
\* existing MOF code.
C6_EmptyNameNoKeywordMatch ==
    (result.called /\ AccountText = <<>>)
        => /\ result.suggestions = <<>>
           /\ ~NumberStep => result.best_match = None

\* a blank name with an account number that matches nothing
C6_Witness ==
    /\ result.called
    /\ account.account_name = <<" ", "\t">>
    /\ Truthy(account.account_number)
    /\ ~NumberStep
    /\ result.best_match = None /\ result.suggestions = <<>>

\* C7: the suggestions are the five best candidates by score: at most five,
\* each a distinct candidate with its score above zero, none left out with a
\* strictly higher score than a listed one, all of them when there are five or
\* fewer, and none when no candidate scores above zero.
C7_TopFiveSuggestions ==
    result.called =>
        LET s == result.suggestions
            listed == {s[j].mof_code : j \in 1..Len(s)}
        IN /\ Len(s) <= 5
           /\ Len(s) = (IF Cardinality(PositiveCandidates) < 5
                        THEN Cardinality(PositiveCandidates) ELSE 5)
           /\ Cardinality(listed) = Len(s)
           /\ \A j \in 1..Len(s) :
                 /\ s[j].mof_code \in PositiveCandidates
                 /\ s[j].score = Score(s[j].mof_code)
                 /\ s[j].score > 0
           /\ \A c \in PositiveCandidates \ listed :
                 \A j \in 1..Len(s) : Score(c) <= s[j].score

\* more than five candidates scored above zero, with different scores
C7_Witness ==
    /\ result.called
    /\ Cardinality(PositiveCandidates) > 5
    /\ \E c, d \in PositiveCandidates : Score(c) < Score(d)

\* C8: a later call on the same account, with the same existing codes and
\* the same MOF Account Mapping documents, returns the match and the
\* suggestions of the first call.
C8_Idempotent ==
    (repeated /\ result.existing = firstResult.existing /\ result.docs = firstResult.docs)
        => /\ result.best_match = firstResult.best_match
           /\ result.suggestions = firstResult.suggestions

\* a repeated call that returned a keyword match and suggestions
C8_Witness ==
    /\ repeated
    /\ result.existing = firstResult.existing /\ result.docs = firstResult.docs
    /\ ~NumberStep /\ result.best_match # None
    /\ Len(result.suggestions) > 1

----------------------------------------------------------------------------
(* Properties of the initializer under threads, checked under ThreadSpec *)

\* the globals _init_keyword_cache leaves behind when it runs alone
CompleteCatalog == init_keyword_cache(EmptyDict, EmptyDict)

\* C9: whatever the interleaving of initializer and classifier calls, a
\* classification runs on the complete keyword catalog and the complete
\* per-category code lists.
C9_ClassifiesOnCompleteCatalog ==
    \A t \in Threads :
        pc[t] = "classify" =>
            /\ KEYWORD_CACHE = CompleteCatalog.cache
            /\ MOF_CODES_BY_ROOT = CompleteCatalog.byRoot

----------------------------------------------------------------------------
(* Properties of the report request, checked under RequestSpec *)

\* C10: submit_report calls the MOF send-report API, and sets the status to
\* Submitted, only for a request whose workflow state is Approved.
C10_SendsOnlyWhenApproved ==
    \A w \in sendReportCalls : w = "Approved"

----------------------------------------------------------------------------
(* Properties of the idempotent decorator, checked under IdemSpec *)

\* C11: once a call with given key parameters has completed successfully,
\* a later call with the same key parameters within the TTL returns the
\* stored result without executing the function; a call whose key parameters
\* no live completed call had executes the function.
C11_SameKeyParamsStoredOthersExecute ==
    idemLast.called =>
        /\ idemLast.liveBefore # {} =>
              /\ ~idemLast.executed
              /\ idemLast.returned \in idemLast.liveBefore
        /\ idemLast.liveBefore = {} => idemLast.executed

----------------------------------------------------------------------------
(* Properties of the circuit breaker, checked under BreakerSpec *)

\* the last call found the breaker OPEN with the recovery timeout elapsed
\* since the last failure
LastCallAfterRecovery ==
    /\ cbLast.called
    /\ cbLast.before.state = "open"
    /\ cbLast.before.last_failure_time # NoTime
    /\ cbLast.at - cbLast.before.last_failure_time > RecoveryTimeout

\* C12: a CLOSED breaker stays CLOSED while fewer than failure_threshold
\* calls of the wrapped function have failed in a row, and a call on a CLOSED
\* breaker leaves it OPEN exactly when it is the failure that brings that
\* number to failure_threshold.
C12_OpensAtThreshold ==
    /\ breaker.state = "closed" => cbConsecutive < FailureThreshold
    /\ (cbLast.called /\ cbLast.before.state = "closed") =>
          /\ cbLast.after.state \in {"closed", "open"}
          /\ cbLast.after.state = "open"
                <=> (cbLast.failed /\ cbConsecutive = FailureThreshold)

\* the failure that brought the failures in a row to failure_threshold
\* opened a breaker that had stayed CLOSED through the failures before it
C12_Witness ==
    /\ cbLast.called /\ cbLast.before.state = "closed" /\ cbLast.failed
    /\ cbLast.before.failure_count = FailureThreshold - 1
    /\ cbConsecutive = FailureThreshold
    /\ breaker.state = "open"

\* C13: a call that finds the breaker OPEN before the recovery timeout has
\* elapsed since the last failure does not invoke the wrapped function
\* (CircuitBreakerOpen is raised) and leaves the breaker OPEN.
C13_OpenRejects ==
    (cbLast.called /\ cbLast.before.state = "open" /\ ~LastCallAfterRecovery) =>
        /\ ~cbLast.invoked
        /\ cbLast.after = cbLast.before

\* a call was rejected exactly recovery_timeout seconds after the last failure
C13_Witness ==
    /\ cbLast.called /\ cbLast.before.state = "open" /\ ~cbLast.invoked
    /\ cbLast.at - cbLast.before.last_failure_time = RecoveryTimeout

\* C14: a call that finds the breaker OPEN after the recovery timeout has
\* elapsed is let through to the wrapped function, and when the function
\* succeeds the breaker is CLOSED with a failure count of zero.
C14_TrialClosesOnSuccess ==
    LastCallAfterRecovery =>
        /\ cbLast.invoked
        /\ ~cbLast.failed =>
              (cbLast.after.state = "closed" /\ cbLast.after.failure_count = 0)

\* a trial call succeeded on a breaker that had counted failures
C14_Witness ==
    /\ LastCallAfterRecovery /\ cbLast.invoked /\ ~cbLast.failed
    /\ cbLast.before.failure_count >= FailureThreshold
    /\ breaker.state = "closed" /\ breaker.failure_count = 0

----------------------------------------------------------------------------
(* Properties of retry_with_backoff, checked under RetrySpec *)

\* C15: with max_retries = n the wrapped function is invoked at most n + 1
\* times per call; no invocation follows a successful one; and after n + 1
\* failed invocations the call has raised the exception of the last one.
C15_AtMostNPlusOneInvocations ==
    LET seen == retryCall.outcomes
        n == retryCall.max_retries
    IN /\ Len(seen) <= n + 1
       /\ \A i \in 1..Len(seen) : seen[i] = "return" => i = Len(seen)
       /\ (Len(seen) > 0 /\ seen[Len(seen)] = "return") => retryCall.status = "returned"
       /\ (Len(seen) = n + 1 /\ seen[n + 1] # "return") =>
             (retryCall.status = "raised" /\ retryCall.last_exception = seen[n + 1])

\* every retry was used, the attempts failed with different exceptions, and
\* the last one was raised
C15_Witness ==
    /\ retryCall.max_retries = MaxRetries
    /\ Len(retryCall.outcomes) = MaxRetries + 1
    /\ retryCall.status = "raised"
    /\ retryCall.outcomes[1] = "ConnectionError"
    /\ retryCall.last_exception = "TimeoutError"
    /\ Len(retryCall.slept) = MaxRetries

----------------------------------------------------------------------------
(* Properties of resilient_call and the rate limiter, checked under ResilientSpec *)

\* C16: a call rejected by the rate limiter is not counted as a failure of
\* the circuit breaker: the breaker counts a failure, and leaves CLOSED, only
\* after the wrapped function itself has raised.
C16_RejectionsNotCounted ==
    (breaker.failure_count > 0 \/ breaker.state # "closed") => rcFuncRaised

\* the calls the rate limiter admitted in the seconds s .. s + n - 1
AdmittedIn(s, n) ==
    LET RECURSIVE Sum(_)
        Sum(k) == IF k = 0 THEN 0
                  ELSE (IF s + k - 1 <= MaxClock THEN rlAdmitted[s + k - 1] ELSE 0) + Sum(k - 1)
    IN Sum(n)

\* C17: in every window of `period` seconds the rate limiter admits at most
\* `calls` calls, so that a non-blocking acquisition is refused once `calls`
\* calls were admitted in the window.
C17_AtMostCallsPerWindow ==
    \A s \in 0..MaxClock : AdmittedIn(s, RlPeriod) <= RlCalls

----------------------------------------------------------------------------
(* Properties of the report request's status, checked under RequestSpec *)

\* the status values the document's docstring lists
LifecycleStatuses ==
    {"Draft", "Generating", "Ready", "In Progress", "Submitted", "Confirmed",
     "Rejected", "Failed"}

\* C18: after every document method and scheduled task the status is one of
\* the documented lifecycle values.
C18_StatusInLifecycle == status \in LifecycleStatuses

----------------------------------------------------------------------------
(* C19 *)

\* the last execution of job j was its final failed attempt
FinalAttemptFailed(j) ==
    /\ jobLast[j].outcome = "fail"
    /\ jobLast[j].retry_count = jobStats[j].max_retries

\* job j is waiting in the queue
Queued(j) == \E i \in 1..Len(jobQueue) : jobQueue[i].name = j

\* C19: a job enqueued with enqueue_with_retry and max_retries = n is
\* executed at most n + 1 times; a failed execution enqueues the retry
\* exactly when fewer than n retries have been used; after the final failed
\* attempt the job is not queued again and frappe.log_error and
\* _notify_job_failure have each been called exactly once, and before it
\* neither has been called.
C19_AtMostNPlusOneExecutions ==
    \A j \in JobNames :
       LET s == jobStats[j]
           n == s.max_retries
       IN  /\ s.execs <= n + 1
           /\ s.reenqueues <= n
           /\ jobLast[j].outcome = "fail" =>
                 (jobLast[j].reenqueued <=> jobLast[j].retry_count < n)
           /\ FinalAttemptFailed(j) =>
                 /\ ~Queued(j)
                 /\ s.error_logs = 1
                 /\ s.notify_calls = 1
           /\ ~FinalAttemptFailed(j) =>
                 /\ s.error_logs = 0
                 /\ s.notify_calls = 0

\* a job with at least one retry has failed n + 1 times and is logged and notified
C19_Witness ==
    \E j \in JobNames :
       /\ jobStats[j].max_retries >= 1
       /\ jobStats[j].execs = jobStats[j].max_retries + 1
       /\ jobStats[j].reenqueues = jobStats[j].max_retries
       /\ FinalAttemptFailed(j)
       /\ jobStats[j].error_logs = 1
       /\ jobStats[j].notify_calls = 1
       /\ ~Queued(j)

----------------------------------------------------------------------------
(* C20 *)

\* the pairs the last call matched that have no row yet
MatchedWithoutRow ==
    {i \in 1..Len(mapLast.matched) :
        <<mapLast.matched[i].mof_code, mapLast.matched[i].account>> \notin mapLast.items}

\* C20: a call of auto_map_accounts with dry_run = True leaves the rows of
\* every MOF Account Mapping, the auto_mapped marks, the number of saved
\* documents and the number of commits as they were before the call.
C20_DryRunWritesNothing ==
    (mapLast.called /\ mapLast.dry_run) =>
        /\ mappingItems = mapLast.items
        /\ autoMapped = mapLast.auto_mapped
        /\ docSaves = mapLast.saves
        /\ dbCommits = mapLast.commits

\* a dry run matched an account that has no row yet, and wrote nothing
C20_Witness ==
    /\ mapLast.called
    /\ mapLast.dry_run
    /\ MatchedWithoutRow # {}
    /\ mappingItems = mapLast.items
    /\ docSaves = mapLast.saves
    /\ dbCommits = mapLast.commits

----------------------------------------------------------------------------
(* C21 *)

\* the keys generate_key makes for the calls of the model
IdemKeys ==
    {generate_key(op, KeyParamsOf(args, kp)) :
        op \in {"submit_report", "check_status"}, args \in IdemArgs, kp \in KeyParamsChoices}

\* the stores under the key that have neither expired nor been invalidated
LiveStores(key) == {d \in idemDone : d.key = key /\ idemNow < d.expires}

----------------------------------------------------------------------------
(* C22 *)

\* the exception types the decorator was given
SpecifiedTypes == {"ConnectionError", "TimeoutError"}

\* the invocations of func that raised an exception of another type
OtherTypeRaised ==
    {i \in 1..Len(retryCall.outcomes) :
        retryCall.outcomes[i] \notin SpecifiedTypes \cup {"return"}}

\* C22: retry_with_backoff retries only on the specified exception types:
\* an invocation of func that raises an exception of another type is the
\* last one, the wrapper raises that exception without sleeping or calling
\* func again, and when func raises it on the first invocation func has been
\* invoked exactly once; every sleep follows an exception of a specified type.
C22_OtherTypesNotRetried ==
    /\ \A i \in OtherTypeRaised :
          /\ i = Len(retryCall.outcomes)
          /\ retryCall.status = "raised"
          /\ retryCall.last_exception = retryCall.outcomes[i]
          /\ Len(retryCall.slept) = i - 1
    /\ (1 \in OtherTypeRaised) =>
          /\ Len(retryCall.outcomes) = 1
          /\ retryCall.slept = << >>
    /\ \A k \in 1..Len(retryCall.slept) : retryCall.outcomes[k] \in SpecifiedTypes

\* with retries allowed, func raised a ValueError on its first invocation
\* and the wrapper raised it at once
C22_Witness ==
    /\ retryCall.status = "raised"
    /\ retryCall.max_retries >= 1
    /\ retryCall.outcomes = <<"ValueError">>
    /\ retryCall.last_exception = "ValueError"
    /\ retryCall.slept = << >>

----------------------------------------------------------------------------
(* C23 *)

\* C23: for any interleaving of concurrent get_or_execute calls, or calls of
\* an idempotent-decorated function, with the same operation and the same key
\* parameters, the underlying function is executed at most once.
C23_ExecutedAtMostOnce ==
    \A c \in IdemOperations \X IdemArgs : geReturned[c] <= 1

----------------------------------------------------------------------------
(* C24 *)

\* the lifecycle statuses that come before Submitted
EarlierStatuses == {"Draft", "Generating", "Ready", "In Progress"}

\* C24: once a report request has reached status Submitted or Confirmed, no
\* document method or scheduled task sets its status back to Draft,
\* Generating, Ready or In Progress.
C24_NoWayBackAfterSubmitted ==
    [][(status \in {"Submitted", "Confirmed"}) => (status' \notin EarlierStatuses)]_vars

----------------------------------------------------------------------------
(* C25 *)

\* C25: during one half-open episode, from the moment the breaker leaves
\* OPEN until it next becomes CLOSED or OPEN, at most half_open_max_calls
\* calls are admitted to the wrapped function, for any interleaving of
\* concurrent callers.
C25_HalfOpenAdmitsAtMostMax ==
    breaker.state = "half_open" => hoAdmitted <= HalfOpenMaxCalls

----------------------------------------------------------------------------
(* C26 *)

\* more than recovery_timeout seconds have passed at time t without a
\* failure being recorded in breaker b
QuietForRecovery(b, t) ==
    b.last_failure_time = NoTime \/ t - b.last_failure_time > RecoveryTimeout

\* C26: an OPEN breaker, restored from the cache or not, for which more than
\* recovery_timeout seconds have passed without a new failure being recorded
\* admits the next call: _should_allow_request allows it now, and the last
\* call that met the breaker in that condition was let through to the function.
C26_OpenBreakerRecovers ==
    /\ (breaker.state = "open" /\ QuietForRecovery(breaker, wallClock)) =>
          should_allow_request(breaker, breakerCache, wallClock).allow
    /\ (/\ cbLast.called
        /\ cbLast.before.state = "open"
        /\ QuietForRecovery(cbLast.before, cbLast.at)) => cbLast.invoked

\* a breaker restored OPEN from the cache (the count of failures in a row
\* started again at the restart) admitted a call after the timeout, and the
\* call failed
C26_Witness ==
    /\ cbLast.called
    /\ cbLast.before.state = "open"
    /\ cbLast.before.last_failure_time # NoTime
    /\ cbLast.at - cbLast.before.last_failure_time > RecoveryTimeout
    /\ cbLast.invoked
    /\ cbLast.failed
    /\ cbConsecutive = 1

----------------------------------------------------------------------------
(* C27 *)

\* C27: when MOF answers a submission with validation keys, submit_report
\* leaves the request with status Failed and with validation_errors holding
\* those keys.  (submit_report starts from Ready or In Progress, so a step of
\* it that ends in Failed is the one where MOF answered with keys.)
C27_ValidationKeysKept ==
    [][(SubmitReport /\ status' = "Failed") => (validation_errors' = "keys")]_vars

----------------------------------------------------------------------------
(* C28 *)

\* C28: after the GL Entry update hook has run for a company,
\* get_cached_gl_totals for that company returns no value cached before the
\* update: what it returns are totals of the ledger as it stands.
C28_NoStaleTotalsAfterUpdate ==
    (glLast.called /\ glLast.returned # << >>) => glLast.returned[1] = glLast.ledger

====
